---- MODULE Spec2Model ----
(***************************************************************************)
(* agentify-mcp: the session registry (SessionManager), the task-completion *)
(* detector (StateTracker) and the server wiring between them               *)
(* (AgentifyMCPServer.setupEventListeners), as a state machine.             *)
(*                                                                          *)
(* Time is counted in units of 30000 ms: the default idle timeout of        *)
(* startTaskMonitoring is 1 unit, the timeout the server passes on          *)
(* 'clientConnected' (60000 ms) is 2 units.  The 5000 ms intervals are      *)
(* shorter than one unit: they may fire at any moment while scheduled.      *)
(* The code reads a date only as its distance to the clock (Date.now() - d) *)
(* and a timer only as the time left until it expires, so the model keeps   *)
(* ages and remaining times; Tick is the clock advancing by one unit.       *)
(*                                                                          *)
(* A timer handle is stored in trackingIntervals under one key, right after *)
(* it is created.  The model keeps the timer itself under that key, with    *)
(* live = FALSE once it was cleared or has expired, and keeps the timers    *)
(* whose map entry was overwritten while they were scheduled in             *)
(* leakedTimers (the same for watchers and leakedWatchers).                 *)
(***************************************************************************)
EXTENDS Integers, Sequences, FiniteSets, TLC

\* ------------------------------------------------------------------ bounds
ClientIds == {"c1", "c2"}
\* Two ids of which one extends the other by the suffix of a timer key.
ExtendingIds == {"c1", "c1_task"}
\* The ids a caller may pass: those of ClientIds and the empty id.
AllIds == ClientIds \cup {""}
MaxAge == 2
MaxLeaked == 1
MaxListeners == 2
MaxPending == 1
MaxReads == 2
MaxCount == 1
MaxSubscribers == 2
MaxNow == 2
\* The most snapshots added for one client: more than a history keeps.
MaxSnapshots == 102
Many == 2

\* ------------------------------------------------------- program constants
DefaultIdleTimeout == 1
ServerIdleTimeout == 2
\* getInactiveClients(timeoutMs = 300000)
CleanupTimeout == 10
\* The age from which on no timeout of the program tells two dates apart.
AgeCap == CleanupTimeout + 1
IdleTimeouts == {DefaultIdleTimeout, ServerIdleTimeout}

\* `session_${Date.now()}`
SessionId(ms) == "session_" \o ToString(ms)

\* The ids the Initialize handler can give out while the clock is within MaxNow.
SessionIds == {SessionId(ms) : ms \in 0..MaxNow}

\* Every id the history variables keep a record for.
TrackedIds == AllIds \cup ExtendingIds \cup SessionIds \cup {"default_session"}

CONNECTED == "connected"
IDLE == "idle"
RUNNING == "running"
WAITING_INPUT == "waiting_input"
PAUSED == "paused"
ERROR == "error"
COMPLETED == "completed"
DISCONNECTED == "disconnected"

AgentStatus ==
  {CONNECTED, IDLE, RUNNING, WAITING_INPUT, PAUSED, ERROR, COMPLETED, DISCONNECTED}

\* The transition table the repository's rules require of updateClientStatus.
VALID_TRANSITIONS(from) ==
  CASE from = CONNECTED -> {IDLE, RUNNING, DISCONNECTED}
    [] from = IDLE -> {RUNNING, PAUSED, DISCONNECTED}
    [] from = RUNNING -> {IDLE, COMPLETED, ERROR, PAUSED}
    [] from = PAUSED -> {RUNNING, IDLE, DISCONNECTED}
    [] from = ERROR -> {IDLE, RUNNING, DISCONNECTED}
    [] from = COMPLETED -> {IDLE, RUNNING, DISCONNECTED}
    [] OTHER -> {}

\* Files the watcher may report, and what a read of one may return.
FilePaths == {"package.json", "src/app.ts"}
FileEvents == {"add", "change", "unlink"}
Contents == {"Build Successful", "compiling", ""}

\* The completionIndicators of a task configuration: the default of
\* startTaskMonitoring, the list the server passes, and a list of the caller's own.
DefaultCompletionIndicators == <<"task completed", "done", "finished", "success">>
ServerCompletionIndicators ==
  <<"task completed", "done", "finished", "success", "build successful">>
IndicatorLists == {DefaultCompletionIndicators, <<"deployed">>}
TaskConfigs ==
  {[idleTimeout |-> t, completionIndicators |-> k] : t \in IdleTimeouts, k \in IndicatorLists}

\* completionPatterns.some(pattern => pattern.test(filePath))
isCompletionFile(filePath) == filePath \in {"package.json"}

\* A test with the operands of includes exchanged: every keyword includes "".
hasCompletionIndicatorReversed(content) == content \in {"Build Successful", ""}

\* completionKeywords.some(keyword => content.toLowerCase().includes(keyword))
hasCompletionIndicator(content) == content \in {"Build Successful"}

\* ------------------------------------------------------------------- state
VARIABLES
  fileWatchingEnabled, \* config.fileWatching?.enabled
  clients,             \* SessionManager.clients: id -> AgentClient
  trackingIntervals,   \* StateTracker.trackingIntervals: key -> timer
  leakedTimers,        \* scheduled timers no map entry holds any more (a bag)
  watchers,            \* StateTracker.watchers: id -> the clientId its watcher reports
  leakedWatchers,      \* open watchers no map entry holds any more (a bag of clientIds)
  fileListeners,       \* the 'fileChanged' listeners startTaskMonitoring installed
  pendingReads,        \* analyzeFileChangesForCompletion calls awaiting fs.readFile (a bag)
  pendingCompletions,  \* handleTaskCompletionEvent calls awaiting sendNotification (a bag)
  emitted,             \* what the last operation emitted, in order
  armed,               \* history: id has a tracking session that has not completed or stopped
  completions,         \* history: completion events for id since its last startTaskMonitoring
  quiet,               \* history: nothing but the clock has touched id since its last start
  disconnected,        \* history: id was unregistered and nothing was started for it since
  stale,               \* history: id was unregistered while a completion handler for it waits
  stateHistory,        \* StateTracker.stateHistory: id -> the snapshots kept, oldest first
  dateNow,             \* Date.now() in ms, counted over the ms in which it was read for an id
  toolServer,          \* the webhook-reporting AgentifyMCPServer: webhook, log, tool call
  subscribers,         \* the 'taskCompleted' listeners added to the StateTracker, in order
  raised               \* where the exception of the last operation ended, if it threw

vars ==
  <<fileWatchingEnabled, clients, trackingIntervals, leakedTimers, watchers, leakedWatchers,
    fileListeners, pendingReads, pendingCompletions, emitted,
    armed, completions, quiet, disconnected, stale, stateHistory, dateNow, toolServer,
    subscribers, raised>>

\* ----------------------------------------------------------------- helpers
EmptyMap == [x \in {} |-> 0]

Put(f, k, v) == [x \in (DOMAIN f) \cup {k} |-> IF x = k THEN v ELSE f[x]]

Remove(f, k) == [x \in (DOMAIN f) \ {k} |-> f[x]]

Range(f) == {f[x] : x \in DOMAIN f}

RECURSIVE SumOver(_, _)
SumOver(b, S) ==
  IF S = {} THEN 0 ELSE LET e == CHOOSE x \in S : TRUE IN b[e] + SumOver(b, S \ {e})

BagAdd(b, e) == IF e \in DOMAIN b THEN [b EXCEPT ![e] = @ + 1] ELSE Put(b, e, 1)

BagRemove(b, e) == IF b[e] > 1 THEN [b EXCEPT ![e] = @ - 1] ELSE Remove(b, e)

BagSize(b) == SumOver(b, DOMAIN b)

\* Map keys of trackingIntervals: the metrics interval of a client is stored under
\* its id, its idle timer under `${clientId}_task`, its poll under `${clientId}_process`.
MetricsKey(clientId) == clientId
TaskKey(clientId) == clientId \o "_task"
ProcessKey(clientId) == clientId \o "_process"

\* Events, in one record shape.
Event(type, clientId, trigger, timeout, oldStatus, newStatus) ==
  [type |-> type, clientId |-> clientId, trigger |-> trigger, timeout |-> timeout,
   oldStatus |-> oldStatus, newStatus |-> newStatus]

SimpleEvent(type, clientId) == Event(type, clientId, "-", 0, "-", "-")

\* Where an exception thrown inside an operation ends: nowhere (none was thrown or
\* a try/catch of the program caught it), at the caller of the operation, or at the
\* event loop (thrown out of a timer callback: the process terminates).
NoException == "none"
ToCaller == "caller"
Uncaught == "uncaught"

\* The whole state as one record, so that an operation can call another.
\* ok = FALSE: the operation ran into a bound of the model.
Cur ==
  [ok |-> TRUE, clients |-> clients,
   trackingIntervals |-> trackingIntervals, leakedTimers |-> leakedTimers,
   watchers |-> watchers, leakedWatchers |-> leakedWatchers,
   fileListeners |-> fileListeners,
   pendingReads |-> pendingReads, pendingCompletions |-> pendingCompletions,
   emitted |-> <<>>, armed |-> armed, completions |-> completions, quiet |-> quiet,
   disconnected |-> disconnected, stale |-> stale, stateHistory |-> stateHistory,
   dateNow |-> dateNow, subscribers |-> subscribers,
   raised |-> NoException]

emit(s, e) == [s EXCEPT !.emitted = Append(@, e)]

\* setTimeout(callback, timeout) / setInterval(callback, 5000): a scheduled timer.
Timer(kind, clientId, timeout) ==
  [kind |-> kind, clientId |-> clientId, remaining |-> timeout, timeout |-> timeout,
   live |-> TRUE]

\* clearTimeout / clearInterval of the handle stored under key.
clear(s, key) ==
  IF key \in DOMAIN s.trackingIntervals
  THEN [s EXCEPT !.trackingIntervals[key].live = FALSE]
  ELSE s

\* The timer stored under key leaves the map: if it is still scheduled, it leaks.
leak(s, key) ==
  IF key \in DOMAIN s.trackingIntervals /\ s.trackingIntervals[key].live
  THEN IF BagSize(s.leakedTimers) >= MaxLeaked THEN [s EXCEPT !.ok = FALSE]
       ELSE [s EXCEPT !.leakedTimers = BagAdd(@, s.trackingIntervals[key])]
  ELSE s

\* trackingIntervals.set(key, timer)
set(s, key, timer) == [leak(s, key) EXCEPT !.trackingIntervals = Put(@, key, timer)]

\* trackingIntervals.delete(key)
delete(s, key) == [leak(s, key) EXCEPT !.trackingIntervals = Remove(@, key)]

\* The scheduled timers: those the map holds and those that leaked.
LiveRefs(s) ==
  {[leaked |-> FALSE, key |-> k, timer |-> s.trackingIntervals[k]] :
     k \in {x \in DOMAIN s.trackingIntervals : s.trackingIntervals[x].live}}
  \cup {[leaked |-> TRUE, key |-> "", timer |-> tm] : tm \in DOMAIN s.leakedTimers}

\* A scheduled timer stops being scheduled: a timeout that expired, or an interval
\* cleared through the handle its callback holds.
expire(s, ref) ==
  IF ref.leaked THEN [s EXCEPT !.leakedTimers = BagRemove(@, ref.timer)]
  ELSE IF ref.key \in DOMAIN s.trackingIntervals /\ s.trackingIntervals[ref.key] = ref.timer
  THEN [s EXCEPT !.trackingIntervals[ref.key].live = FALSE]
  ELSE s

\* ------------------------------------------------------------ StateTracker

\* What a 'taskCompleted' listener does with the event: it throws, it records it,
\* or it adds another listener (one that records) to the same event.
SubscriberKinds == {"throws", "records", "subscribes"}

\* The record of a call of the listener registered index-th, with the event of clientId.
Delivered(clientId, index) ==
  Event("delivered: taskCompleted", clientId, "listener", index, "-", "-")

\* this.on('taskCompleted', listener) called by a listener while the event is dispatched.
subscribeInside(s) ==
  IF Len(s.subscribers) >= MaxSubscribers THEN [s EXCEPT !.ok = FALSE]
  ELSE [s EXCEPT !.subscribers = Append(@, "records")]

\* EventEmitter.emit calls the listeners in registration order, synchronously and
\* with no try/catch: the first one that throws ends the emit, and the exception
\* leaves emit towards its caller.
\* The listeners are those registered when emit was called, emit iterating over a
\* copy of the array: a listener added during the dispatch is not called in it.
RECURSIVE deliver(_, _, _, _)
deliver(s, listeners, index, clientId) ==
  IF index > Len(listeners) THEN s
  ELSE IF listeners[index] = "throws" THEN [s EXCEPT !.raised = ToCaller]
  ELSE LET called == emit(s, Delivered(clientId, index)) IN
       deliver(IF listeners[index] = "subscribes" THEN subscribeInside(called) ELSE called,
               listeners, index + 1, clientId)

\* try { ... } catch (error) { this.logger.error(...) }
caught(s) == [s EXCEPT !.raised = NoException]

\* An exception that leaves a timer callback is uncaught.
uncaught(s) == IF s.raised = ToCaller THEN [s EXCEPT !.raised = Uncaught] ELSE s

\* A stopTaskMonitoring that clears the idle timer and keeps its map entry.
stopTaskMonitoringKeepsEntry(s, clientId) ==
  emit([clear(s, TaskKey(clientId)) EXCEPT !.armed[clientId] = FALSE],
       SimpleEvent("log: Task monitoring stopped", clientId))

\* stopTaskMonitoring(clientId): clears and forgets the idle timer of the client.
stopTaskMonitoring(s, clientId) ==
  LET key == TaskKey(clientId)
      s1 == IF key \in DOMAIN s.trackingIntervals THEN delete(clear(s, key), key) ELSE s
  IN emit([s1 EXCEPT !.armed[clientId] = FALSE],
          SimpleEvent("log: Task monitoring stopped", clientId))

\* The server's 'agentTaskCompleted' listener, up to its first await:
\* handleTaskCompletionEvent looks the client up and awaits the notification.
\* A call that found no client does nothing when it resumes and is not kept.
handleTaskCompletionEvent(s, clientId) ==
  IF clientId \notin DOMAIN s.clients THEN s
  ELSE IF BagSize(s.pendingCompletions) >= MaxPending THEN [s EXCEPT !.ok = FALSE]
  ELSE [s EXCEPT !.pendingCompletions = BagAdd(@, clientId)]

\* detectTaskCompletion(clientId, trigger, details): emits both completion events
\* (the server's listener runs inside the second emit), then stops the monitoring.
detectTaskCompletion(s, clientId, trigger, timeout) ==
  LET s1 == deliver(emit(s, Event("taskCompleted", clientId, trigger, timeout, "-", "-")),
                    s.subscribers, 1, clientId)
      s2 == emit(s1, Event("agentTaskCompleted", clientId, trigger, timeout, "-", "-"))
      s3 == handleTaskCompletionEvent(s2, clientId)
      s4 == [s3 EXCEPT !.completions[clientId] = IF @ < Many THEN @ + 1 ELSE @]
  IN IF s1.raised /= NoException THEN s1 ELSE stopTaskMonitoring(s4, clientId)

\* markTaskCompleted(clientId, reason)
markTaskCompleted(s, clientId) == detectTaskCompletion(s, clientId, "manual", 0)

\* resetIdleTimer(clientId, config): cancels the idle timer and schedules a new one.
resetIdleTimer(s, clientId, idleTimeout) ==
  set(clear(s, TaskKey(clientId)), TaskKey(clientId), Timer("idle", clientId, idleTimeout))

\* analyzeFileChangesForCompletion(clientId, event), up to its await of fs.readFile.
analyzeFileChangesForCompletion(s, clientId, event, filePath) ==
  IF isCompletionFile(filePath) /\ event = "change"
  THEN IF BagSize(s.pendingReads) >= MaxReads THEN [s EXCEPT !.ok = FALSE]
       ELSE [s EXCEPT !.pendingReads =
                        BagAdd(@, [clientId |-> clientId, filePath |-> filePath])]
  ELSE s

\* A startTaskMonitoring that schedules the new idle timer and leaves the one it
\* replaces scheduled.
startTaskMonitoringKeepsPrevious(s, clientId, idleTimeout) ==
  LET key == TaskKey(clientId)
      s1 == set(s, key, Timer("idle", clientId, idleTimeout))
      s2 == IF Len(s1.fileListeners) >= MaxListeners THEN [s1 EXCEPT !.ok = FALSE]
            ELSE [s1 EXCEPT !.fileListeners =
                     Append(@, [clientId |-> clientId, idleTimeout |-> idleTimeout,
                                completionIndicators |-> DefaultCompletionIndicators])]
  IN [s2 EXCEPT !.armed[clientId] = TRUE, !.completions[clientId] = 0,
                !.quiet[clientId] = TRUE, !.disconnected[clientId] = FALSE]

\* A startTaskMonitoring that stores the new idle timer first and then clears what
\* the map holds under the key.
startTaskMonitoringClearsLast(s, clientId, idleTimeout) ==
  LET key == TaskKey(clientId)
      s1 == clear(set(clear(s, key), key, Timer("idle", clientId, idleTimeout)), key)
      s2 == IF Len(s1.fileListeners) >= MaxListeners THEN [s1 EXCEPT !.ok = FALSE]
            ELSE [s1 EXCEPT !.fileListeners =
                     Append(@, [clientId |-> clientId, idleTimeout |-> idleTimeout,
                                completionIndicators |-> DefaultCompletionIndicators])]
  IN [s2 EXCEPT !.armed[clientId] = TRUE, !.completions[clientId] = 0,
                !.quiet[clientId] = TRUE, !.disconnected[clientId] = FALSE]

\* startTaskMonitoring(clientId, taskConfig): schedules the idle timer, cancels the
\* one it replaces, and installs a 'fileChanged' listener (never removed).
startTaskMonitoring(s, clientId, idleTimeout) ==
  LET key == TaskKey(clientId)
      s1 == set(clear(s, key), key, Timer("idle", clientId, idleTimeout))
      s2 == IF Len(s1.fileListeners) >= MaxListeners THEN [s1 EXCEPT !.ok = FALSE]
            ELSE [s1 EXCEPT !.fileListeners =
                     Append(@, [clientId |-> clientId, idleTimeout |-> idleTimeout,
                                completionIndicators |-> DefaultCompletionIndicators])]
  IN [s2 EXCEPT !.armed[clientId] = TRUE, !.completions[clientId] = 0,
                !.quiet[clientId] = TRUE, !.disconnected[clientId] = FALSE]

\* startTaskMonitoring(clientId, taskConfig) with completionIndicators in taskConfig:
\* `...taskConfig` replaces the default list in the config the listener closes over.
startTaskMonitoringWith(s, clientId, taskConfig) ==
  LET started == startTaskMonitoring(s, clientId, taskConfig.idleTimeout) IN
  IF started.ok
  THEN [started EXCEPT !.fileListeners[Len(started.fileListeners)].completionIndicators =
                         taskConfig.completionIndicators]
  ELSE started

\* One 'fileChanged' listener of startTaskMonitoring receiving an event.
fileChangedListener(s, listener, clientId, event, filePath) ==
  IF listener.clientId = clientId
  THEN analyzeFileChangesForCompletion(
         resetIdleTimer(s, clientId, listener.idleTimeout), clientId, event, filePath)
  ELSE s

\* handleFileChange(clientId, event, filePath): emits 'fileChanged' to the listeners
\* in registration order.
RECURSIVE dispatchFileChanged(_, _, _, _, _)
dispatchFileChanged(s, listeners, clientId, event, filePath) ==
  IF listeners = <<>> THEN s
  ELSE dispatchFileChanged(
         fileChangedListener(s, Head(listeners), clientId, event, filePath),
         Tail(listeners), clientId, event, filePath)

handleFileChange(s, clientId, event, filePath) ==
  dispatchFileChanged(emit(s, SimpleEvent("fileChanged", clientId)),
                      s.fileListeners, clientId, event, filePath)

\* monitorProcessCompletion(clientId, processName): schedules the 5 s poll.
monitorProcessCompletion(s, clientId) ==
  set(s, ProcessKey(clientId), Timer("process", clientId, 0))

\* startFileSystemTracking(clientId): a new chokidar watcher, stored under the id.
startFileSystemTracking(s, clientId) ==
  LET s1 == IF clientId \in DOMAIN s.watchers
            THEN IF BagSize(s.leakedWatchers) >= MaxLeaked THEN [s EXCEPT !.ok = FALSE]
                 ELSE [s EXCEPT !.leakedWatchers = BagAdd(@, s.watchers[clientId])]
            ELSE s
  IN [s1 EXCEPT !.watchers = Put(@, clientId, clientId)]

\* startMetricsTracking(clientId): a new 5 s interval, stored under the id.
startMetricsTracking(s, clientId) ==
  set(s, MetricsKey(clientId), Timer("metrics", clientId, 0))

\* startTracking(clientId)
startTracking(s, clientId, enabled) ==
  emit(startMetricsTracking(
         IF enabled THEN startFileSystemTracking(s, clientId) ELSE s, clientId),
       SimpleEvent("trackingStarted", clientId))

\* stopTracking(clientId): closes the watcher and clears the interval stored under the id.
stopTracking(s, clientId) ==
  LET s1 == IF clientId \in DOMAIN s.watchers
            THEN [s EXCEPT !.watchers = Remove(@, clientId)] ELSE s
      key == MetricsKey(clientId)
      s2 == IF key \in DOMAIN s1.trackingIntervals THEN delete(clear(s1, key), key) ELSE s1
  IN emit(s2, SimpleEvent("trackingStopped", clientId))

\* The number of snapshots a history keeps.
HistoryLimit == 100

\* A addStateSnapshot that drops the snapshot it was given when the history is full.
addStateSnapshotDropsNewest(s, clientId, state) ==
  LET history == IF clientId \in DOMAIN s.stateHistory THEN s.stateHistory[clientId]
                 ELSE <<>>
      pushed == Append(history, state)
      kept == IF Len(pushed) > HistoryLimit THEN SubSeq(pushed, 1, HistoryLimit) ELSE pushed
  IN emit([s EXCEPT !.stateHistory = Put(@, clientId, kept)],
          SimpleEvent("stateSnapshot", clientId))

\* addStateSnapshot(clientId, state): the snapshot is pushed, the oldest one is
\* shifted out of a history of more than 100, 'stateSnapshot' is emitted.
addStateSnapshot(s, clientId, state) ==
  LET history == IF clientId \in DOMAIN s.stateHistory THEN s.stateHistory[clientId]
                 ELSE <<>>
      pushed == Append(history, state)
      kept == IF Len(pushed) > HistoryLimit THEN Tail(pushed) ELSE pushed
  IN emit([s EXCEPT !.stateHistory = Put(@, clientId, kept)],
          SimpleEvent("stateSnapshot", clientId))

\* getStateHistory(clientId)
getStateHistory(s, clientId) ==
  IF clientId \in DOMAIN s.stateHistory THEN s.stateHistory[clientId] ELSE <<>>

RECURSIVE stopEach(_, _)
\* for (const clientId of this.watchers.keys()) this.stopTracking(clientId)
stopEach(s, order) ==
  IF order = <<>> THEN s
  ELSE stopEach(stopTracking(s, Head(order)), Tail(order))

\* stopAll(): stopTracking for the ids that have a watcher, in the order of the map.
stopAll(s, order) == stopEach(s, order)

\* ---------------------------------------------------------- SessionManager

\* The AgentClient the server builds for an Initialize request: connectedAt and
\* lastActivity are both new Date().
NewClient(clientId) ==
  [id |-> clientId, type |-> "claude-code", name |-> "Unknown Client",
   status |-> CONNECTED, sinceConnectedAt |-> 0, sinceLastActivity |-> 0,
   requestCount |-> 0, errorCount |-> 0]

\* The AgentClient objects a caller of registerClient may pass: any status, dates
\* of its own choosing (lastActivity not before connectedAt), and possibly an empty
\* id, type or name.
EntityStatuses == {CONNECTED, RUNNING, DISCONNECTED}

EntityDates ==
  {<<0, 0>>, <<1, 0>>, <<AgeCap, CleanupTimeout>>, <<AgeCap, AgeCap>>}

ValidEntities ==
  {[NewClient(id) EXCEPT !.status = st, !.sinceConnectedAt = d[1],
                         !.sinceLastActivity = d[2]] :
     id \in ClientIds, st \in EntityStatuses, d \in EntityDates}

MalformedEntities ==
  {[NewClient("c1") EXCEPT !.id = ""], [NewClient("c1") EXCEPT !.type = ""],
   [NewClient("c1") EXCEPT !.name = ""]}

Entities == ValidEntities \cup MalformedEntities

\* The server's 'clientConnected' listener: task monitoring starts with a 60 s timeout.
onClientConnected(s, clientId) ==
  startTaskMonitoringWith(s, clientId, [idleTimeout |-> ServerIdleTimeout,
                                        completionIndicators |-> ServerCompletionIndicators])

\* The server's 'clientDisconnected' listener.
onClientDisconnected(s, clientId) == stopTaskMonitoring(s, clientId)

\* getClient(clientId): the entity, or nothing (undefined).
getClient(s, clientId) ==
  IF clientId \in DOMAIN s.clients THEN {s.clients[clientId]} ELSE {}

\* getAllClients()
getAllClients(s) == Range(s.clients)

\* getActiveClients()
getActiveClients(s) == {client \in Range(s.clients) : client.status /= DISCONNECTED}

\* getActiveSessionIds(), as a set: the order of the Map is not kept in the model.
getActiveSessionIds(s) == {client.id : client \in getActiveClients(s)}

\* A registerClient that keeps the entity it already holds for the id.
registerClientKeepsFirst(s, client) ==
  onClientConnected(
    emit([s EXCEPT !.clients = IF client.id \in DOMAIN @ THEN @ ELSE Put(@, client.id, client)],
         SimpleEvent("clientConnected", client.id)),
    client.id)

\* registerClient(client)
registerClient(s, client) ==
  onClientConnected(
    emit([s EXCEPT !.clients = Put(@, client.id, client)],
         SimpleEvent("clientConnected", client.id)),
    client.id)

\* An unregisterClient that marks the entity Disconnected and keeps it in the map.
unregisterClientKeepsEntry(s, clientId) ==
  IF clientId \in DOMAIN s.clients
  THEN onClientDisconnected(
         emit([s EXCEPT !.clients[clientId].status = DISCONNECTED],
              Event("clientDisconnected", clientId, "-", 0, "-", DISCONNECTED)),
         clientId)
  ELSE s

\* unregisterClient(clientId)
unregisterClient(s, clientId) ==
  IF clientId \in DOMAIN s.clients
  THEN onClientDisconnected(
         emit([s EXCEPT !.clients = Remove(@, clientId)],
              Event("clientDisconnected", clientId, "-", 0, "-", DISCONNECTED)),
         clientId)
  ELSE s

\* An updateClientStatus that reads oldStatus after it assigned the new status.
updateClientStatusReadsOldLate(s, clientId, status) ==
  IF clientId \in DOMAIN s.clients
  THEN emit([s EXCEPT !.clients[clientId].status = status,
                      !.clients[clientId].sinceLastActivity = 0],
            Event("clientStatusChanged", clientId, "-", 0, status, status))
  ELSE s

\* updateClientStatus(clientId, status)
updateClientStatus(s, clientId, status) ==
  IF clientId \in DOMAIN s.clients
  THEN LET oldStatus == s.clients[clientId].status IN
       emit([s EXCEPT !.clients[clientId].status = status,
                      !.clients[clientId].sinceLastActivity = 0],
            Event("clientStatusChanged", clientId, "-", 0, oldStatus, status))
  ELSE s

\* A getInactiveClients that also returns the clients whose age equals the timeout.
getInactiveClientsInclusive(s, timeoutMs) ==
  {client \in Range(s.clients) : client.sinceLastActivity >= timeoutMs}

\* getInactiveClients(timeoutMs = 300000)
getInactiveClients(s, timeoutMs) ==
  {client \in Range(s.clients) : client.sinceLastActivity > timeoutMs}

\* The orders in which a Map may yield the ids in S.
Orders(S) ==
  {q \in [1..Cardinality(S) -> S] : \A i, j \in 1..Cardinality(S) : i /= j => q[i] /= q[j]}

RECURSIVE unregisterEach(_, _)
\* inactiveClients.forEach((client) => this.unregisterClient(client.id))
unregisterEach(s, order) ==
  IF order = <<>> THEN s
  ELSE unregisterEach(unregisterClient(s, Head(order)), Tail(order))

\* cleanup()
cleanup(s, order) == unregisterEach(s, order)

\* The client getCurrentSessionId registers when no session is active.
DefaultClient ==
  [NewClient("default_session") EXCEPT !.type = "custom", !.name = "Default Client"]

\* The value a call returned to its caller, kept with the events of the step.
returns(s, operation, clientId) == emit(s, SimpleEvent("returned: " \o operation, clientId))

\* getCurrentClient(), with getCurrentSessionId() inlined. first is activeSessions[0]
\* when there is an active session. `activeSessions[0] || null` is null for the
\* empty id, and a null session id or a missing client makes getCurrentClient throw.
getCurrentClient(s, first) ==
  IF getActiveSessionIds(s) = {}
  THEN returns(registerClient(s, DefaultClient), "getCurrentClient", DefaultClient.id)
  ELSE IF first = "" \/ first \notin DOMAIN s.clients
  THEN [s EXCEPT !.raised = ToCaller]
  ELSE returns(s, "getCurrentClient", first)

\* An updateClientContext that publishes its event whether or not it found the client.
updateClientContextUnguarded(s, clientId) ==
  emit(IF clientId \in DOMAIN s.clients
       THEN [s EXCEPT !.clients[clientId].sinceLastActivity = 0] ELSE s,
       SimpleEvent("clientContextUpdated", clientId))

\* updateClientContext(clientId, context)
updateClientContext(s, clientId) ==
  IF clientId \in DOMAIN s.clients
  THEN emit([s EXCEPT !.clients[clientId].sinceLastActivity = 0],
            SimpleEvent("clientContextUpdated", clientId))
  ELSE s

\* The partial metrics a caller of updateClientMetrics may pass.
MetricsUpdates ==
  {[requestCount |-> 0], [errorCount |-> MaxCount],
   [requestCount |-> MaxCount, errorCount |-> 0]}

\* { ...client.metrics, ...metrics }
mergeMetrics(client, metrics) ==
  [client EXCEPT
     !.requestCount = IF "requestCount" \in DOMAIN metrics THEN metrics.requestCount ELSE @,
     !.errorCount = IF "errorCount" \in DOMAIN metrics THEN metrics.errorCount ELSE @]

\* updateClientMetrics(clientId, metrics)
updateClientMetrics(s, clientId, metrics) ==
  IF clientId \in DOMAIN s.clients
  THEN emit([s EXCEPT !.clients[clientId] = mergeMetrics(@, metrics)],
            SimpleEvent("clientMetricsUpdated", clientId))
  ELSE s

\* incrementClientRequests(clientId)
incrementClientRequests(s, clientId) ==
  IF clientId \in DOMAIN s.clients
  THEN [s EXCEPT !.clients[clientId].requestCount = @ + 1,
                 !.clients[clientId].sinceLastActivity = 0]
  ELSE s

\* An incrementClientErrors that counts the failed request as a request too.
incrementClientErrorsCountsRequest(s, clientId) ==
  IF clientId \in DOMAIN s.clients
  THEN [s EXCEPT !.clients[clientId].errorCount = @ + 1,
                 !.clients[clientId].requestCount = @ + 1,
                 !.clients[clientId].sinceLastActivity = 0]
  ELSE s

\* incrementClientErrors(clientId)
incrementClientErrors(s, clientId) ==
  IF clientId \in DOMAIN s.clients
  THEN [s EXCEPT !.clients[clientId].errorCount = @ + 1,
                 !.clients[clientId].sinceLastActivity = 0]
  ELSE s

\* ------------------------------------------------------------ ToolHandlers

\* A clientId argument that was not given (undefined).
Absent == "<absent>"

\* The arguments of a tool call: whether they pass the rest of the tool's schema,
\* and the clientId they carry, if any.
ToolArgs ==
  {[valid |-> FALSE, clientId |-> Absent]}
  \cup {[valid |-> TRUE, clientId |-> c] : c \in AllIds \cup {Absent}}

\* `clientId` as a condition: undefined and the empty string are falsy.
truthy(clientId) == clientId \notin {"", Absent}

\* What a handler returns: a CallToolResult, with isError or without (recorded with
\* the clientId argument of the call).
toolResult(s, tool, args, isError) ==
  emit(s, Event("result: " \o tool, args.clientId, IF isError THEN "isError" ELSE "-",
                0, "-", "-"))

\* clientId || this.getCurrentClient().id: the state after the evaluation.
targetState(s, args, first) ==
  IF truthy(args.clientId) THEN s ELSE getCurrentClient(s, first)

\* clientId || this.getCurrentClient().id: the value, when nothing was thrown.
targetClientId(s, args, first) ==
  IF truthy(args.clientId) THEN args.clientId
  ELSE IF getActiveSessionIds(s) = {} THEN DefaultClient.id
  ELSE first

\* ToolHandlers.handleGetAgentStatus(args)
handleGetAgentStatus(s, args) ==
  IF ~args.valid THEN toolResult(s, "get-agent-status", args, TRUE)
  ELSE IF truthy(args.clientId)
  THEN toolResult(s, "get-agent-status", args, getClient(s, args.clientId) = {})
  ELSE toolResult(s, "get-agent-status", args, FALSE)

\* ToolHandlers.handlePauseAgent(args): the schema requires a clientId.
handlePauseAgent(s, args) ==
  IF ~args.valid \/ args.clientId = Absent THEN toolResult(s, "pause-agent", args, TRUE)
  ELSE toolResult(updateClientStatus(s, args.clientId, PAUSED), "pause-agent", args, FALSE)

\* ToolHandlers.handleResumeAgent(args): the schema requires a clientId.
handleResumeAgent(s, args) ==
  IF ~args.valid \/ args.clientId = Absent THEN toolResult(s, "resume-agent", args, TRUE)
  ELSE toolResult(updateClientStatus(s, args.clientId, RUNNING), "resume-agent", args, FALSE)

\* ToolHandlers.handleGetFileChanges(args): getFileChanges returns no changes.
handleGetFileChanges(s, args, first) ==
  IF ~args.valid THEN toolResult(s, "get-file-changes", args, TRUE)
  ELSE LET s1 == targetState(s, args, first) IN
       IF s1.raised /= NoException THEN toolResult(caught(s1), "get-file-changes", args, TRUE)
       ELSE toolResult(s1, "get-file-changes", args, FALSE)

\* ToolHandlers.handleGetMetrics(args)
handleGetMetrics(s, args, first) ==
  IF ~args.valid THEN toolResult(s, "get-metrics", args, TRUE)
  ELSE LET s1 == targetState(s, args, first) IN
       IF s1.raised /= NoException THEN toolResult(caught(s1), "get-metrics", args, TRUE)
       ELSE toolResult(s1, "get-metrics", args, getClient(s1, targetClientId(s, args, first)) = {})

\* ToolHandlers.handleMarkTaskCompleted(args)
handleMarkTaskCompleted(s, args, first) ==
  IF ~args.valid THEN toolResult(s, "mark-task-completed", args, TRUE)
  ELSE LET s1 == targetState(s, args, first) IN
       IF s1.raised /= NoException THEN toolResult(caught(s1), "mark-task-completed", args, TRUE)
       ELSE LET s2 == markTaskCompleted(s1, targetClientId(s, args, first)) IN
            IF s2.raised /= NoException THEN toolResult(caught(s2), "mark-task-completed", args, TRUE)
            ELSE toolResult(s2, "mark-task-completed", args, FALSE)

\* ToolHandlers.handleTaskStarted(args): the description is logged.
handleTaskStarted(s, args) == toolResult(s, "task-started", args, ~args.valid)

\* ------------------------------------- AgentifyMCPServer with a webhook

\* The URLs a configuration may hold; "" is an absent (undefined or empty) one.
ConfigUrls == {"", "https://config"}
AgentifyEnvUrls == {"", "https://agentify-env"}
EnvUrls == {"", "https://env"}
SetUrls == {"", "https://set"}

\* The tools a client may call, and how the handler of a known one ends: it
\* returns its result, it returns an error result for arguments its schema rejects,
\* or it throws.
ToolNames == {"task-started", "no-such-tool"}
KnownTools == {"task-started"}
HandlerOutcomes == {"returns", "returns isError", "throws"}

\* How a fetch of the webhook ends: response.ok, a response that is not ok, rejected.
FetchOutcomes == {"ok", "not ok", "rejected"}

\* No tool call is in progress.
NoCall == [pc |-> "none", tool |-> "", sent |-> <<>>, error |-> FALSE, result |-> ""]

\* The server before its constructor has run.
NotConstructed == [constructed |-> FALSE, webhook |-> "", log |-> <<>>, call |-> NoCall]

\* a || b on strings: the empty string is falsy.
or(a, b) == IF a /= "" THEN a ELSE b

\* One line of the log: the text and the URL interpolated into it, if any.
LogLine(text, url) == [text |-> text, url |-> url]

\* constructor(config): the webhook URL is the first non-empty one of the
\* constructor parameter, AGENTIFY_WEBHOOK_URL and WEBHOOK_URL.
construct(config, agentifyEnv, env) ==
  LET webhookUrl == or(or(config, agentifyEnv), env) IN
  [constructed |-> TRUE, webhook |-> webhookUrl,
   log |-> IF webhookUrl /= "" THEN <<LogLine("Webhook enabled: ", webhookUrl)>>
           ELSE <<LogLine("Webhook disabled - no URL provided", "")>>,
   call |-> NoCall]

\* A setWebhookUrl that keeps the webhook it has when called with an empty URL.
setWebhookUrlIgnoresEmpty(server, url) ==
  IF url /= ""
  THEN [server EXCEPT !.webhook = url, !.log = <<LogLine("Webhook URL updated: ", url)>>]
  ELSE [server EXCEPT !.log = <<LogLine("Webhook disabled", "")>>]

\* setWebhookUrl(url)
setWebhookUrl(server, url) ==
  IF url /= ""
  THEN [server EXCEPT !.webhook = url, !.log = <<LogLine("Webhook URL updated: ", url)>>]
  ELSE [server EXCEPT !.webhook = "", !.log = <<LogLine("Webhook disabled", "")>>]

\* getWebhookUrl(): 'configured' or undefined ("")
getWebhookUrl(server) == IF server.webhook /= "" THEN "configured" ELSE ""

\* isWebhookEnabled()
isWebhookEnabled(server) == server.webhook /= ""

\* SimpleWebhook.send up to its await: fetch posts the payload to the webhook's URL.
send(server, event) ==
  [server EXCEPT !.call.sent = Append(@, [event |-> event, url |-> server.webhook])]

\* SimpleWebhook.send after its await: the outcome is logged, nothing is thrown.
sendSettles(server, outcome) ==
  [server EXCEPT !.log =
     <<CASE outcome = "ok" -> LogLine("Webhook sent: ", "")
         [] outcome = "not ok" -> LogLine("Webhook failed: ", "")
         [] OTHER -> LogLine("Webhook error:", "")>>]

\* The CallTool handler up to its first await: 'tool_called' is sent if a webhook is
\* set, and the tool's handler is entered otherwise.
callTool(server, name) ==
  LET started == [server EXCEPT !.call = [NoCall EXCEPT !.tool = name], !.log = <<>>] IN
  IF started.webhook /= ""
  THEN [send(started, "tool_called") EXCEPT !.call.pc = "sending tool_called"]
  ELSE [started EXCEPT !.call.pc = "handling"]

\* The CallTool handler from the end of the tool's handler to its next await: the
\* result is the handler's, an error result if it threw, 'Unknown tool' for a name
\* that is not a tool; the terminal payload is sent if a webhook is set now.
handlerFinishes(server, outcome) ==
  LET error == server.call.tool \in KnownTools /\ outcome = "throws"
      result == IF error THEN "Error executing tool"
                ELSE IF server.call.tool \notin KnownTools THEN "Unknown tool"
                ELSE IF outcome = "returns isError" THEN "Error recording task start"
                ELSE "handled"
      done == [server EXCEPT !.call.error = error, !.call.result = result, !.log = <<>>]
  IN IF done.webhook /= ""
     THEN [send(done, IF error THEN "tool_error" ELSE "tool_completed")
             EXCEPT !.call.pc = "sending terminal"]
     ELSE [done EXCEPT !.call.pc = "returned"]

\* The fetch of a payload settles and the CallTool handler goes on.
fetchSettles(server, outcome) ==
  [sendSettles(server, outcome) EXCEPT
     !.call.pc = IF server.call.pc = "sending tool_called" THEN "handling" ELSE "returned"]

\* ----------------------------------------------------------------- actions

\* History: something other than the clock touched the client.
touched(s, clientId) == [s EXCEPT !.quiet[clientId] = FALSE]

Finish(s) ==
  /\ raised /= Uncaught
  /\ s.ok
  /\ clients' = s.clients
  /\ trackingIntervals' = s.trackingIntervals
  /\ leakedTimers' = s.leakedTimers
  /\ watchers' = s.watchers
  /\ leakedWatchers' = s.leakedWatchers
  /\ fileListeners' = s.fileListeners
  /\ pendingReads' = s.pendingReads
  /\ pendingCompletions' = s.pendingCompletions
  /\ emitted' = s.emitted
  /\ armed' = s.armed
  /\ completions' = s.completions
  /\ quiet' = s.quiet
  /\ disconnected' = s.disconnected
  /\ stale' = s.stale
  /\ stateHistory' = s.stateHistory
  /\ dateNow' = s.dateNow
  /\ subscribers' = s.subscribers
  /\ raised' = s.raised
  /\ UNCHANGED <<fileWatchingEnabled, toolServer>>

Init ==
  /\ fileWatchingEnabled \in BOOLEAN
  /\ clients = EmptyMap
  /\ trackingIntervals = EmptyMap
  /\ leakedTimers = EmptyMap
  /\ watchers = EmptyMap
  /\ leakedWatchers = EmptyMap
  /\ fileListeners = <<>>
  /\ pendingReads = EmptyMap
  /\ pendingCompletions = EmptyMap
  /\ emitted = <<>>
  /\ armed = [c \in TrackedIds |-> FALSE]
  /\ completions = [c \in TrackedIds |-> 0]
  /\ quiet = [c \in TrackedIds |-> FALSE]
  /\ disconnected = [c \in TrackedIds |-> FALSE]
  /\ stale = [c \in TrackedIds |-> FALSE]
  /\ stateHistory = EmptyMap
  /\ dateNow = [ms |-> 0, read |-> FALSE]
  /\ toolServer = NotConstructed
  /\ subscribers = <<>>
  /\ raised = NoException

\* The state after construction with config.fileWatching.enabled off.
InitWithoutFileWatching == Init /\ ~fileWatchingEnabled

\* The clock moves on to a millisecond in which Date.now() was not read yet. The
\* milliseconds in which no id was made are not counted.
nextMillisecond(d) == IF d.read THEN [ms |-> d.ms + 1, read |-> FALSE] ELSE d

\* One unit of time passes for a scheduled timer.
tickTimer(tm) ==
  IF tm.live /\ tm.remaining > 0 THEN [tm EXCEPT !.remaining = @ - 1] ELSE tm

\* One unit of time passes for a date: Date.now() - date grows.
tickAge(age) == IF age = MaxAge \/ age >= AgeCap THEN age ELSE age + 1

\* The clock advances by one unit.
Tick ==
  /\ raised /= Uncaught
  /\ clients' = [c \in DOMAIN clients |->
                   [clients[c] EXCEPT !.sinceConnectedAt = tickAge(@),
                                      !.sinceLastActivity = tickAge(@)]]
  /\ trackingIntervals' = [k \in DOMAIN trackingIntervals |-> tickTimer(trackingIntervals[k])]
  /\ leakedTimers' =
       [tm \in {tickTimer(x) : x \in DOMAIN leakedTimers} |->
          SumOver(leakedTimers, {x \in DOMAIN leakedTimers : tickTimer(x) = tm})]
  /\ emitted' = <<>>
  /\ raised' = NoException
  /\ dateNow' = nextMillisecond(dateNow)
  /\ UNCHANGED <<fileWatchingEnabled, watchers, leakedWatchers, fileListeners,
                 pendingReads, pendingCompletions, armed, completions, quiet, disconnected,
                 stale, stateHistory,
                 toolServer, subscribers>>

\* Date.now() moves on within one unit of time.
Millisecond ==
  /\ dateNow.read
  /\ Finish([Cur EXCEPT !.dateNow = nextMillisecond(@)])

\* The Initialize handler: the client is built with the id `session_${Date.now()}`
\* and registered.
Initialize ==
  /\ dateNow.ms <= MaxNow
  /\ Finish(registerClient([Cur EXCEPT !.dateNow.read = TRUE],
                           NewClient(SessionId(dateNow.ms))))

\* An Initialize request: the server registers a client.
RegisterClient(clientId) ==
  Finish(registerClient(Cur, NewClient(clientId)))

\* registerClient called with an AgentClient of the caller's making.
RegisterEntity(client) ==
  Finish(registerClient(Cur, client))

UnregisterClient(clientId) ==
  Finish(LET s == touched(unregisterClient(Cur, clientId), clientId) IN
         IF clientId \in DOMAIN clients
         THEN [s EXCEPT !.disconnected[clientId] = TRUE,
                        !.stale[clientId] = clientId \in DOMAIN pendingCompletions \/ @]
         ELSE s)

UpdateClientStatus(clientId, status) ==
  Finish(touched(updateClientStatus(Cur, clientId, status), clientId))

UpdateClientContext(clientId) ==
  Finish(touched(updateClientContext(Cur, clientId), clientId))

UpdateClientMetrics(clientId, metrics) ==
  Finish(touched(updateClientMetrics(Cur, clientId, metrics), clientId))

\* cleanup(): the inactive clients are unregistered in the order the map yields them.
Cleanup ==
  \E order \in Orders({client.id : client \in getInactiveClients(Cur, CleanupTimeout)}) :
    Finish(LET s == cleanup(Cur, order) IN
           [s EXCEPT
              !.quiet = [c \in TrackedIds |-> IF c \in Range(order) THEN FALSE ELSE @[c]],
              !.disconnected = [c \in TrackedIds |-> IF c \in Range(order) THEN TRUE ELSE @[c]],
              !.stale = [c \in TrackedIds |->
                           (c \in Range(order) /\ c \in DOMAIN pendingCompletions) \/ @[c]]])

\* A tool called without a clientId resolves the current client. Which active
\* session the Map yields first is not kept in the model: any of them may be it.
GetCurrentClient ==
  \E first \in getActiveSessionIds(Cur) \cup {""} :
    /\ getActiveSessionIds(Cur) /= {} => first \in getActiveSessionIds(Cur)
    /\ Finish(getCurrentClient(Cur, first))

\* The session ids getActiveSessionIds() may list first: the order of the Map is
\* not kept in the model.
Firsts ==
  {first \in getActiveSessionIds(Cur) \cup {""} :
     getActiveSessionIds(Cur) /= {} => first \in getActiveSessionIds(Cur)}

\* The tools of the server, called with arguments of the client's.
HandleGetAgentStatus(args) == Finish(handleGetAgentStatus(Cur, args))

HandlePauseAgent(args) == Finish(handlePauseAgent(Cur, args))

HandleResumeAgent(args) == Finish(handleResumeAgent(Cur, args))

HandleGetFileChanges(args, first) == Finish(handleGetFileChanges(Cur, args, first))

HandleGetMetrics(args, first) == Finish(handleGetMetrics(Cur, args, first))

HandleMarkTaskCompleted(args, first) == Finish(handleMarkTaskCompleted(Cur, args, first))

HandleTaskStarted(args) == Finish(handleTaskStarted(Cur, args))

\* What the operations of the webhook-reporting server leave alone.
detector ==
  <<fileWatchingEnabled, clients, trackingIntervals, leakedTimers, watchers, leakedWatchers,
    fileListeners, pendingReads, pendingCompletions, emitted,
    armed, completions, quiet, disconnected, stale, stateHistory, dateNow, subscribers,
    raised>>

\* new AgentifyMCPServer(config) in an environment.
Construct(config, agentifyEnv, env) ==
  /\ ~toolServer.constructed
  /\ toolServer' = construct(config, agentifyEnv, env)
  /\ UNCHANGED detector

SetWebhookUrl(url) ==
  /\ toolServer.constructed
  /\ toolServer' = setWebhookUrl(toolServer, url)
  /\ UNCHANGED detector

\* A CallTool request arrives; the one before it has returned.
CallTool(name) ==
  /\ toolServer.constructed
  /\ toolServer.call.pc \in {"none", "returned"}
  /\ toolServer' = callTool(toolServer, name)
  /\ UNCHANGED detector

\* The tool's handler ends.
HandlerFinishes(outcome) ==
  /\ toolServer.call.pc = "handling"
  /\ toolServer' = handlerFinishes(toolServer, outcome)
  /\ UNCHANGED detector

\* The fetch of the payload that was sent settles.
FetchSettles(outcome) ==
  /\ toolServer.call.pc \in {"sending tool_called", "sending terminal"}
  /\ toolServer' = fetchSettles(toolServer, outcome)
  /\ UNCHANGED detector

\* The pause-agent tool: handlePauseAgent.
PauseAgent(clientId) ==
  Finish(touched(updateClientStatus(Cur, clientId, PAUSED), clientId))

\* The resume-agent tool: handleResumeAgent.
ResumeAgent(clientId) ==
  Finish(touched(updateClientStatus(Cur, clientId, RUNNING), clientId))

IncrementClientRequests(clientId) ==
  /\ clientId \in DOMAIN clients => clients[clientId].requestCount < MaxCount
  /\ Finish(touched(incrementClientRequests(Cur, clientId), clientId))

IncrementClientErrors(clientId) ==
  /\ clientId \in DOMAIN clients => clients[clientId].errorCount < MaxCount
  /\ Finish(touched(incrementClientErrors(Cur, clientId), clientId))

StartTracking(clientId) ==
  Finish([touched(startTracking(Cur, clientId, fileWatchingEnabled), clientId)
            EXCEPT !.disconnected[clientId] = FALSE])

StopTracking(clientId) ==
  Finish(touched(stopTracking(Cur, clientId), clientId))

\* stopAll(), called by AgentifyMCPServer.stop(). The order in which the Map yields
\* its keys is not kept in the model: any order may be it.
StopAll ==
  \E order \in Orders(DOMAIN watchers) :
    Finish(LET s == returns(stopAll(Cur, order), "stopAll", "") IN
           [s EXCEPT !.quiet = [c \in TrackedIds |-> c \notin Range(order) /\ @[c]]])

\* The snapshot a caller adds as the n-th one of a client: the client's state with
\* n requests counted, so that the snapshots of a client differ.
Snapshot(clientId, n) == [NewClient(clientId) EXCEPT !.requestCount = n]

\* The number of snapshots ever added for a client, read off its latest snapshot.
Added(clientId) ==
  LET history == getStateHistory(Cur, clientId) IN
  IF history = <<>> THEN 0 ELSE history[Len(history)].requestCount

\* stateTracker.addStateSnapshot(clientId, state)
AddStateSnapshot(clientId) ==
  /\ Added(clientId) < MaxSnapshots
  /\ Finish(addStateSnapshot(Cur, clientId, Snapshot(clientId, Added(clientId) + 1)))

StartTaskMonitoring(clientId, idleTimeout) ==
  Finish(startTaskMonitoring(Cur, clientId, idleTimeout))

StartTaskMonitoringWith(clientId, taskConfig) ==
  Finish(startTaskMonitoringWith(Cur, clientId, taskConfig))

StopTaskMonitoring(clientId) ==
  Finish(touched(stopTaskMonitoring(Cur, clientId), clientId))

\* The mark-task-completed tool and AgentifyMCPServer.markTaskCompleted.
MarkTaskCompleted(clientId) ==
  Finish(touched(markTaskCompleted(Cur, clientId), clientId))

MonitorProcessCompletion(clientId) ==
  Finish([touched(monitorProcessCompletion(Cur, clientId), clientId)
            EXCEPT !.disconnected[clientId] = FALSE])

\* The clients an open watcher reports file events for.
WatchedClients == Range(watchers) \cup DOMAIN leakedWatchers

\* A watcher reports a file event.
FileChanges(clientId, event, filePath) ==
  /\ clientId \in WatchedClients
  /\ Finish(handleFileChange(touched(Cur, clientId), clientId, event, filePath))

\* fs.readFile settles (with "" when it failed) and the analysis goes on.
ReadCompletes(r, content) ==
  /\ r \in DOMAIN pendingReads
  /\ Finish(LET s == touched([Cur EXCEPT !.pendingReads = BagRemove(@, r)], r.clientId) IN
            IF hasCompletionIndicator(content)
            THEN caught(detectTaskCompletion(s, r.clientId, "file_analysis", 0))
            ELSE s)

\* The idle timer of a client expires: its callback runs.
IdleTimerFires(ref) ==
  /\ ref \in LiveRefs(Cur)
  /\ ref.timer.kind = "idle"
  /\ ref.timer.remaining = 0
  /\ Finish(uncaught(detectTaskCompletion(expire(Cur, ref), ref.timer.clientId,
                                          "idle_timeout", ref.timer.timeout)))

\* The metrics interval of a client ticks: collectMetrics emits 'metricsUpdated'.
MetricsIntervalFires(ref) ==
  /\ ref \in LiveRefs(Cur)
  /\ ref.timer.kind = "metrics"
  /\ Finish(emit(Cur, SimpleEvent("metricsUpdated", ref.timer.clientId)))

\* The process poll of a client ticks: checkProcessStatus reports the process gone,
\* the completion is detected and the poll clears itself.
ProcessPollFires(ref) ==
  /\ ref \in LiveRefs(Cur)
  /\ ref.timer.kind = "process"
  /\ Finish(LET s == detectTaskCompletion(touched(Cur, ref.timer.clientId),
                                          ref.timer.clientId, "process_completion", 0) IN
            IF s.raised /= NoException THEN caught(s) ELSE expire(s, ref))

\* stateTracker.on('taskCompleted', listener)
Subscribe(kind) ==
  /\ Len(subscribers) < MaxSubscribers
  /\ Finish([Cur EXCEPT !.subscribers = Append(@, kind)])

\* handleTaskCompletionEvent resumes after the notification was sent.
CompletionHandlerResumes(clientId) ==
  /\ clientId \in DOMAIN pendingCompletions
  /\ Finish(updateClientContext(
              updateClientStatus(
                touched([Cur EXCEPT
                           !.pendingCompletions = BagRemove(@, clientId),
                           !.stale[clientId] =
                              @ /\ clientId \in DOMAIN BagRemove(pendingCompletions, clientId)],
                        clientId),
                clientId, IDLE),
              clientId))

\* The completion detector: task monitoring, file activity and every trigger but the
\* process poll.
Next ==
  \/ Tick
  \/ \E c \in ClientIds : StartTracking(c)
  \/ \E c \in ClientIds, t \in IdleTimeouts : StartTaskMonitoring(c, t)
  \/ \E c \in ClientIds : StopTaskMonitoring(c)
  \/ \E c \in ClientIds : MarkTaskCompleted(c)
  \/ \E c \in ClientIds, e \in FileEvents, f \in FilePaths : FileChanges(c, e, f)
  \/ \E r \in DOMAIN pendingReads, content \in Contents : ReadCompletes(r, content)
  \/ \E ref \in LiveRefs(Cur) : IdleTimerFires(ref)

Spec == Init /\ [][Next]_vars

\* The idle timer on its own: sessions are started, stopped and marked, the clock
\* advances, and the callback of an expired idle timer runs.
IdleNext ==
  \/ Tick
  \/ \E c \in ClientIds, t \in IdleTimeouts : StartTaskMonitoring(c, t)
  \/ \E c \in ClientIds : StopTaskMonitoring(c)
  \/ \E c \in ClientIds : MarkTaskCompleted(c)
  \/ \E ref \in LiveRefs(Cur) : IdleTimerFires(ref)

\* The event loop keeps running: time passes, and a timer that expired has its
\* callback run.
IdleSpec ==
  /\ Init /\ [][IdleNext]_vars
  /\ WF_vars(Tick)
  /\ \A c \in ClientIds :
       WF_vars(\E ref \in LiveRefs(Cur) : ref.timer.clientId = c /\ IdleTimerFires(ref))

\* Starting and stopping: the watcher, the metrics interval and the idle timer.
TrackingNext ==
  \/ Tick
  \/ \E c \in ClientIds : StartTracking(c)
  \/ \E c \in ClientIds : StopTracking(c)
  \/ \E c \in ClientIds, t \in IdleTimeouts : StartTaskMonitoring(c, t)
  \/ \E c \in ClientIds : StopTaskMonitoring(c)
  \/ \E ref \in LiveRefs(Cur) : IdleTimerFires(ref)
  \/ \E ref \in LiveRefs(Cur) : MetricsIntervalFires(ref)

TrackingSpec == Init /\ [][TrackingNext]_vars

\* Shutdown: clients are tracked, with file watching enabled or disabled, monitored
\* for idleness and for the end of their process, and the tracker is stopped.
ShutdownNext ==
  \/ Tick
  \/ \E c \in ClientIds : StartTracking(c)
  \/ \E c \in ClientIds : StartTaskMonitoring(c, DefaultIdleTimeout)
  \/ \E c \in ClientIds : MonitorProcessCompletion(c)
  \/ \E ref \in LiveRefs(Cur) : MetricsIntervalFires(ref)
  \/ StopAll

ShutdownSpec == Init /\ [][ShutdownNext]_vars

\* Histories: snapshots are added for two clients, more than a history keeps.
HistoryNext == \E c \in ClientIds : AddStateSnapshot(c)

HistorySpec == InitWithoutFileWatching /\ [][HistoryNext]_vars

\* Activity on registered clients: the counters of SessionManager next to the idle
\* timer the server starts for each registered client.
ActivityNext ==
  \/ Tick
  \/ \E c \in ClientIds : RegisterClient(c)
  \/ \E c \in ClientIds : IncrementClientRequests(c)
  \/ \E c \in ClientIds : IncrementClientErrors(c)
  \/ \E ref \in LiveRefs(Cur) : IdleTimerFires(ref)
  \/ \E c \in ClientIds : CompletionHandlerResumes(c)

ActivitySpec == Init /\ [][ActivityNext]_vars

\* The server: the registry wired to the detector by setupEventListeners.
ServerNext ==
  \/ Tick
  \/ \E c \in ClientIds : RegisterClient(c)
  \/ \E c \in ClientIds : UnregisterClient(c)
  \/ \E c \in ClientIds : MonitorProcessCompletion(c)
  \/ \E ref \in LiveRefs(Cur) : IdleTimerFires(ref)
  \/ \E ref \in LiveRefs(Cur) : ProcessPollFires(ref)
  \/ \E c \in ClientIds : CompletionHandlerResumes(c)

ServerSpec == Init /\ [][ServerNext]_vars

\* The registry: the operations of SessionManager that add, remove or change the
\* status of a client.
SessionNext ==
  \/ Tick
  \/ \E c \in ClientIds : RegisterClient(c)
  \/ \E c \in ClientIds : UnregisterClient(c)
  \/ \E c \in ClientIds, st \in AgentStatus : UpdateClientStatus(c, st)
  \/ \E c \in ClientIds : PauseAgent(c)
  \/ \E c \in ClientIds : ResumeAgent(c)

SessionSpec == Init /\ [][SessionNext]_vars

\* Registration: callers register the entities they built, and unregister.
RegisterNext ==
  \/ Tick
  \/ \E client \in Entities : RegisterEntity(client)
  \/ \E c \in AllIds : UnregisterClient(c)

RegisterSpec == Init /\ [][RegisterNext]_vars

\* The detector used for two clients of which one's id extends the other's.
IsolationNext ==
  \/ Tick
  \/ \E c \in ExtendingIds : StartTracking(c)
  \/ \E c \in ExtendingIds : StopTracking(c)
  \/ \E c \in ExtendingIds, t \in IdleTimeouts : StartTaskMonitoring(c, t)
  \/ \E c \in ExtendingIds : StopTaskMonitoring(c)
  \/ \E c \in ExtendingIds : MarkTaskCompleted(c)
  \/ \E ref \in LiveRefs(Cur) : IdleTimerFires(ref)

IsolationSpec == Init /\ [][IsolationNext]_vars

\* Initialize requests arrive, in the same millisecond or in different ones, and
\* sessions are unregistered.
InitializeNext ==
  \/ Tick
  \/ Millisecond
  \/ Initialize
  \/ \E c \in SessionIds : UnregisterClient(c)

InitializeSpec == Init /\ [][InitializeNext]_vars

\* The default session: entities of the callers' making are registered and
\* unregistered, and tools resolve the current client.
DefaultSessionNext ==
  \/ Tick
  \/ \E client \in Entities : RegisterEntity(client)
  \/ \E c \in AllIds \cup {DefaultClient.id} : UnregisterClient(c)
  \/ GetCurrentClient

DefaultSessionSpec == Init /\ [][DefaultSessionNext]_vars

\* The webhook-reporting server: it is constructed, tools are called, the webhook is
\* set and unset while calls are in progress.
WebhookNext ==
  \/ \E config \in ConfigUrls, agentifyEnv \in AgentifyEnvUrls, env \in EnvUrls :
       Construct(config, agentifyEnv, env)
  \/ \E url \in SetUrls : SetWebhookUrl(url)
  \/ \E name \in ToolNames : CallTool(name)
  \/ \E outcome \in HandlerOutcomes : HandlerFinishes(outcome)
  \/ \E outcome \in FetchOutcomes : FetchSettles(outcome)

WebhookSpec == Init /\ [][WebhookNext]_vars

\* File-based detection: watchers report file events for the clients that are
\* tracked, the reads of the analysis settle, and the idle timers run.
FileNext ==
  \/ Tick
  \/ \E c \in ClientIds : StartTracking(c)
  \/ \E c \in ClientIds, t \in IdleTimeouts : StartTaskMonitoring(c, t)
  \/ \E c \in ClientIds, e \in FileEvents, f \in FilePaths : FileChanges(c, e, f)
  \/ \E r \in DOMAIN pendingReads, content \in Contents : ReadCompletes(r, content)
  \/ \E ref \in LiveRefs(Cur) : IdleTimerFires(ref)

FileSpec == Init /\ [][FileNext]_vars

\* Configured detection: one client is monitored with configurations of the
\* caller's, its files change, the reads of the analysis settle, the idle timer runs.
ConfigNext ==
  \/ Tick
  \/ StartTracking("c1")
  \/ \E taskConfig \in TaskConfigs : StartTaskMonitoringWith("c1", taskConfig)
  \/ StopTaskMonitoring("c1")
  \/ \E e \in FileEvents, f \in FilePaths : FileChanges("c1", e, f)
  \/ \E r \in DOMAIN pendingReads, content \in Contents : ReadCompletes(r, content)
  \/ \E ref \in LiveRefs(Cur) : IdleTimerFires(ref)

ConfigSpec == Init /\ [][ConfigNext]_vars

\* Completion handling: clients come and go while the server's handler of
\* 'agentTaskCompleted' awaits its notification.
CompletionNext ==
  \/ Tick
  \/ \E c \in ClientIds : RegisterClient(c)
  \/ \E c \in ClientIds : UnregisterClient(c)
  \/ \E c \in ClientIds : MarkTaskCompleted(c)
  \/ \E ref \in LiveRefs(Cur) : IdleTimerFires(ref)
  \/ \E c \in ClientIds : CompletionHandlerResumes(c)

\* The notification the handler awaits settles: sendNotification catches what its
\* channels throw.
CompletionSpec ==
  /\ Init /\ [][CompletionNext]_vars
  /\ \A c \in ClientIds : WF_vars(CompletionHandlerResumes(c))

\* Pausing and resuming: the two tools are called for clients that come and go.
PauseNext ==
  \/ Tick
  \/ \E c \in ClientIds : RegisterClient(c)
  \/ \E c \in ClientIds : UnregisterClient(c)
  \/ \E args \in ToolArgs : HandlePauseAgent(args)
  \/ \E args \in ToolArgs : HandleResumeAgent(args)

PauseSpec == Init /\ [][PauseNext]_vars

\* The id that is registered while the tools are called; c2 and the empty id never are.
ToolClients == {"c1"}

\* The tools: clients are registered and unregistered, a listener that throws is
\* added to 'taskCompleted', and the tools are called with every kind of argument.
\* The server tracks no client (it never calls startTracking), so that the setting
\* of config.fileWatching plays no part and is left off.
ToolNext ==
  \/ \E c \in ToolClients : RegisterClient(c)
  \/ \E c \in ToolClients \cup {DefaultClient.id} : UnregisterClient(c)
  \/ subscribers = <<>> /\ Subscribe("throws")
  \/ \E c \in ToolClients \cup {DefaultClient.id} : CompletionHandlerResumes(c)
  \/ \E args \in ToolArgs : HandleGetAgentStatus(args)
  \/ \E args \in ToolArgs : HandlePauseAgent(args)
  \/ \E args \in ToolArgs, first \in Firsts : HandleGetFileChanges(args, first)
  \/ \E args \in ToolArgs, first \in Firsts : HandleGetMetrics(args, first)
  \/ \E args \in ToolArgs, first \in Firsts : HandleMarkTaskCompleted(args, first)
  \/ \E args \in ToolArgs : HandleTaskStarted(args)

ToolSpec == InitWithoutFileWatching /\ [][ToolNext]_vars

\* Subscribers: listeners are added to 'taskCompleted' and completions are detected
\* by the idle timer and by markTaskCompleted.
SubscriberNext ==
  \/ Tick
  \/ \E kind \in SubscriberKinds : Subscribe(kind)
  \/ \E c \in ClientIds : RegisterClient(c)
  \/ \E c \in ClientIds : MarkTaskCompleted(c)
  \/ \E ref \in LiveRefs(Cur) : IdleTimerFires(ref)
  \/ \E c \in ClientIds : CompletionHandlerResumes(c)

SubscriberSpec == Init /\ [][SubscriberNext]_vars

\* The timeouts getInactiveClients is called with: none, one unit, the default.
SweepTimeouts == {0, DefaultIdleTimeout, CleanupTimeout}

\* The inactivity sweep: entities of any age are registered, used and swept.
SweepNext ==
  \/ Tick
  \/ \E client \in Entities : RegisterEntity(client)
  \/ \E c \in ClientIds : UpdateClientContext(c)
  \/ Cleanup

SweepSpec == Init /\ [][SweepNext]_vars

\* The statuses the callers of StoreSpec set.
StoreStatuses == {IDLE, RUNNING}

\* The store: every operation of SessionManager that reads or changes one client.
StoreNext ==
  \/ Tick
  \/ \E c \in ClientIds : RegisterClient(c)
  \/ \E c \in AllIds : UnregisterClient(c)
  \/ \E c \in AllIds, st \in StoreStatuses : UpdateClientStatus(c, st)
  \/ \E c \in AllIds : UpdateClientContext(c)
  \/ \E c \in AllIds, m \in MetricsUpdates : UpdateClientMetrics(c, m)
  \/ \E c \in AllIds : IncrementClientRequests(c)
  \/ \E c \in AllIds : IncrementClientErrors(c)

StoreSpec == Init /\ [][StoreNext]_vars

\* -------------------------------------------------------------- properties

IsCompletion(e) == e.type \in {"taskCompleted", "agentTaskCompleted"}

\* The completion events for a client among the events of one operation.
CompletionsIn(es, clientId) ==
  {i \in 1..Len(es) : IsCompletion(es[i]) /\ es[i].clientId = clientId}

\* The scheduled timers that belong to a client.
TimersOf(s, clientId) == {ref \in LiveRefs(s) : ref.timer.clientId = clientId}

HasIdleTimer(clientId) == \E ref \in TimersOf(Cur, clientId) : ref.timer.kind = "idle"

\* C1: markTaskCompleted(id) emits a completion event only while a tracking session
\* for id is armed: called for an id that was never started, was stopped, or has
\* already completed, it emits no completion event.
C1_MarkOnlyWhileArmed ==
  [][\A c \in ClientIds :
       (MarkTaskCompleted(c) /\ ~armed[c]) => CompletionsIn(emitted', c) = {}]_vars

\* C2: after a completion event for id, no idle timer for id is armed again until
\* startTaskMonitoring(id) is called again, whatever file changes arrive.
C2_CompletionClosesSession ==
  \A c \in ClientIds : completions[c] >= 1 => ~HasIdleTimer(c)

\* C3: after startTaskMonitoring(id, T), as long as nothing but the clock touches id:
\* at most one completion has been emitted; a completion emitted is the first, is one
\* 'agentTaskCompleted' with its 'taskCompleted', and has trigger 'idle_timeout';
\* and the completion is eventually emitted.
C3_IdleFiresExactlyOnce ==
  /\ [](\A c \in ClientIds : quiet[c] => completions[c] <= 1)
  /\ [][\A c \in ClientIds :
          (quiet[c] /\ quiet[c]' /\ CompletionsIn(emitted', c) /= {}) =>
            /\ completions[c] = 0
            /\ completions[c]' = 1
            /\ Cardinality({i \in CompletionsIn(emitted', c) :
                              emitted'[i].type = "agentTaskCompleted"}) = 1
            /\ Cardinality(CompletionsIn(emitted', c)) = 2
            /\ \A i \in CompletionsIn(emitted', c) : emitted'[i].trigger = "idle_timeout"]_vars
  /\ \A c \in ClientIds : (quiet[c] /\ armed[c]) ~> (~quiet[c] \/ completions[c] = 1)

\* C3 witness: the idle timer of c1, started with the server's timeout and left
\* alone, has just fired.
C3_Witness ==
  /\ quiet["c1"]
  /\ completions["c1"] = 1
  /\ \E i \in CompletionsIn(emitted, "c1") :
       emitted[i].trigger = "idle_timeout" /\ emitted[i].timeout = ServerIdleTimeout

\* C4: within one episode, a callback that arrives after the episode's completion
\* (the pending file read resuming, the idle timer expiring) emits no completion.
C4_LateCallbackIsNoOp ==
  [][\A c \in ClientIds :
       (/\ completions[c] >= 1
        /\ \/ \E r \in DOMAIN pendingReads, content \in Contents :
                r.clientId = c /\ ReadCompletes(r, content)
           \/ \E ref \in TimersOf(Cur, c) : IdleTimerFires(ref))
       => CompletionsIn(emitted', c) = {}]_vars

\* An activity observation on a client: a file change, or a request or error
\* increment on the registered client.
Activity(c) ==
  \/ \E e \in FileEvents, f \in FilePaths : FileChanges(c, e, f)
  \/ c \in DOMAIN clients /\ (IncrementClientRequests(c) \/ IncrementClientErrors(c))

\* C5: an activity observation on a client whose session is armed leaves the
\* client's idle timer rescheduled to its full timeout, and emits no completion.
C5_ActivityResetsIdleTimer ==
  [][\A c \in ClientIds :
       (armed[c] /\ Activity(c)) =>
         /\ CompletionsIn(emitted', c) = {}
         /\ \A ref \in TimersOf(Cur, c)' :
              ref.timer.kind = "idle" => ref.timer.remaining = ref.timer.timeout]_vars

\* C6: once a client was unregistered, and until it is registered or started again,
\* no timer of the client is scheduled and no completion event is emitted for it.
C6_NoTimersAfterDisconnect ==
  \A c \in ClientIds :
    disconnected[c] => TimersOf(Cur, c) = {} /\ CompletionsIn(emitted, c) = {}

C8_TransitionsFollowTable ==
  \A i \in 1..Len(emitted) :
    emitted[i].type = "clientStatusChanged" =>
      emitted[i].newStatus \in VALID_TRANSITIONS(emitted[i].oldStatus)

\* C9: the client map holds no client whose status is Disconnected.
C9_NoDisconnectedClientStored ==
  \A c \in DOMAIN clients : clients[c].status /= DISCONNECTED

\* C10: updateClientStatus(id, target) on a registered client sets the status to the
\* target and lastActivity to the current time, publishes exactly one
\* 'clientStatusChanged' event with the status held before and the target, and
\* leaves the other clients as they were.
C10_StatusChangePublished ==
  [][\A c \in ClientIds, st \in AgentStatus :
       (c \in DOMAIN clients /\ UpdateClientStatus(c, st)) =>
         /\ clients'[c].status = st
         /\ clients'[c].sinceLastActivity = 0
         /\ emitted' = <<Event("clientStatusChanged", c, "-", 0, clients[c].status, st)>>
         /\ \A d \in DOMAIN clients \ {c} : d \in DOMAIN clients' /\ clients'[d] = clients[d]]_vars

\* C10 witness: c1, connected two units ago and idle since, has just been set to
\* Running while c2 is registered as well.
C10_Witness ==
  /\ emitted = <<Event("clientStatusChanged", "c1", "-", 0, CONNECTED, RUNNING)>>
  /\ "c1" \in DOMAIN clients /\ "c2" \in DOMAIN clients
  /\ clients["c1"].status = RUNNING
  /\ clients["c1"].sinceConnectedAt = 2
  /\ clients["c1"].sinceLastActivity = 0

\* C11: right after registerClient(entity) with a non-empty id, type and name,
\* getClient(id) returns an entity with status Connected whose lastActivity equals
\* its connectedAt, both the time of the registration, and the operation has
\* published 'clientConnected' for the id.
C11_RegistrationPostcondition ==
  [][\A client \in ValidEntities :
       RegisterEntity(client) =>
         /\ \A stored \in getClient(Cur, client.id)' :
              /\ stored.status = CONNECTED
              /\ stored.sinceLastActivity = stored.sinceConnectedAt
              /\ stored.sinceConnectedAt = 0
         /\ getClient(Cur, client.id)' /= {}
         /\ \E i \in 1..Len(emitted') :
              emitted'[i].type = "clientConnected" /\ emitted'[i].clientId = client.id]_vars

\* C12: registerClient with an empty id, type or name changes nothing: the client
\* map is as before, no 'clientConnected' is published, no task monitoring is started.
C12_MalformedRegistrationRejected ==
  [][\A client \in MalformedEntities :
       RegisterEntity(client) =>
         /\ clients' = clients
         /\ \A i \in 1..Len(emitted') : emitted'[i].type /= "clientConnected"
         /\ trackingIntervals' = trackingIntervals
         /\ fileListeners' = fileListeners]_vars

C14_UnregisterRemoves ==
  [][\A c \in AllIds :
       (c \in DOMAIN clients /\ UnregisterClient(c)) =>
         /\ getClient(Cur, c)' = {}
         /\ \A client \in getActiveClients(Cur)' : client.id /= c
         /\ Cardinality({i \in 1..Len(emitted') : emitted'[i].type = "clientDisconnected"}) = 1
         /\ \A i \in 1..Len(emitted') :
              emitted'[i].type = "clientDisconnected" =>
                emitted'[i].clientId = c /\ emitted'[i].newStatus = DISCONNECTED
         /\ DOMAIN clients' = DOMAIN clients \ {c}
         /\ \A d \in DOMAIN clients \ {c} : clients'[d] = clients[d]]_vars

\* C14 witness: c1 has just been unregistered while c2 stays registered.
C14_Witness ==
  /\ emitted /= <<>>
  /\ emitted[1] = Event("clientDisconnected", "c1", "-", 0, "-", DISCONNECTED)
  /\ DOMAIN clients = {"c2"}

\* The store and everything the subscribers of its events keep.
storeState ==
  <<clients, trackingIntervals, leakedTimers, watchers, leakedWatchers,
    fileListeners, pendingReads, pendingCompletions>>

\* A call of one of the mutating operations of the store on clientId.
StoreMutation(clientId) ==
  \/ UnregisterClient(clientId)
  \/ \E st \in AgentStatus : UpdateClientStatus(clientId, st)
  \/ UpdateClientContext(clientId)
  \/ \E m \in MetricsUpdates : UpdateClientMetrics(clientId, m)
  \/ IncrementClientRequests(clientId)
  \/ IncrementClientErrors(clientId)

C16_NoLostRegistrations ==
  /\ [](getActiveClients(Cur) = {e \in Range(clients) : e.status /= DISCONNECTED})
  /\ [][\A client \in ValidEntities :
          (client.id \notin DOMAIN clients /\ RegisterEntity(client)) =>
            /\ {e.id : e \in getActiveClients(Cur)'} =
                 {e.id : e \in getActiveClients(Cur)} \cup {client.id}
            /\ Cardinality(getActiveClients(Cur)') =
                 Cardinality(getActiveClients(Cur)) + 1]_vars

\* C17: getInactiveClients(timeout) returns stored entities only, and a stored
\* entity is returned exactly when its last activity is more than timeout ago (one
\* whose age equals the timeout is not returned); after cleanup() none of the
\* entities getInactiveClients() returned is listed by getActiveClients or stored,
\* and every entity it did not return is stored as it was.
C17_InactivitySweep ==
  /\ [](\A timeout \in SweepTimeouts :
          /\ getInactiveClients(Cur, timeout) \subseteq Range(clients)
          /\ \A c \in DOMAIN clients :
               /\ clients[c].sinceLastActivity <= timeout =>
                    clients[c] \notin getInactiveClients(Cur, timeout)
               /\ clients[c].sinceLastActivity > timeout =>
                    clients[c] \in getInactiveClients(Cur, timeout))
  /\ [][Cleanup =>
          LET returned == getInactiveClients(Cur, CleanupTimeout) IN
            /\ \A client \in returned :
                 /\ client.id \notin {e.id : e \in getActiveClients(Cur)'}
                 /\ client.id \notin DOMAIN clients'
            /\ \A c \in DOMAIN clients :
                 clients[c] \notin returned =>
                   c \in DOMAIN clients' /\ clients'[c] = clients[c]]_vars

\* C17 witness: cleanup() has just removed c1, whose last activity was more than
\* the timeout ago, and kept c2, whose last activity is exactly the timeout ago.
C17_Witness ==
  /\ emitted /= <<>>
  /\ emitted[1] = Event("clientDisconnected", "c1", "-", 0, "-", DISCONNECTED)
  /\ DOMAIN clients = {"c2"}
  /\ clients["c2"].sinceLastActivity = CleanupTimeout

\* C18: for an id stored before and after a step, the stored entity's lastActivity
\* does not move back: its age stays or shrinks when no time passes and grows by at
\* most the time that passes.
C18_LastActivityMonotone ==
  [][\A c \in DOMAIN clients \cap DOMAIN clients' :
       \/ clients'[c].sinceLastActivity <= clients[c].sinceLastActivity
       \/ Tick /\ clients'[c].sinceLastActivity <= clients[c].sinceLastActivity + 1]_vars

\* C19: incrementClientRequests(id) and incrementClientErrors(id) on a registered
\* client add one to the counter they name, set lastActivity to the current time,
\* and leave the other counter, the status, the rest of the entity and every other
\* client as they were; no other client appears or disappears.
C19_IncrementsCountOne ==
  [][\A c \in ClientIds :
       /\ (c \in DOMAIN clients /\ IncrementClientRequests(c)) =>
            /\ clients'[c].requestCount = clients[c].requestCount + 1
            /\ clients'[c].errorCount = clients[c].errorCount
       /\ (c \in DOMAIN clients /\ IncrementClientErrors(c)) =>
            /\ clients'[c].errorCount = clients[c].errorCount + 1
            /\ clients'[c].requestCount = clients[c].requestCount
       /\ (c \in DOMAIN clients /\ (IncrementClientRequests(c) \/ IncrementClientErrors(c))) =>
            /\ clients'[c].sinceLastActivity = 0
            /\ clients'[c].status = clients[c].status
            /\ clients'[c].sinceConnectedAt = clients[c].sinceConnectedAt
            /\ clients'[c].id = c
            /\ DOMAIN clients' = DOMAIN clients
            /\ \A d \in DOMAIN clients \ {c} : clients'[d] = clients[d]]_vars

\* C19 witness: a request of c1 was counted one unit after its last activity and
\* after the completion handler had set it idle; c2 has not been active since.
C19_Witness ==
  /\ DOMAIN clients = {"c1", "c2"}
  /\ clients["c1"].requestCount = 1
  /\ clients["c1"].errorCount = 0
  /\ clients["c1"].status = IDLE
  /\ clients["c1"].sinceLastActivity = 0
  /\ clients["c1"].sinceConnectedAt > 0
  /\ clients["c2"].sinceLastActivity > 0

\* C20: when a step publishes 'taskCompleted', every listener registered at the
\* publish that does not throw has received it, whatever the listeners before it
\* did; no exception has left the operation; and the publisher has gone on: it has
\* published 'agentTaskCompleted' for the same client after it, and the idle timer
\* of the client is no longer stored.
C20_SubscriberFailureIsolated ==
  [][\A i \in 1..Len(emitted') :
       emitted'[i].type = "taskCompleted" =>
         /\ \A k \in 1..Len(subscribers) :
              subscribers[k] /= "throws" =>
                \E j \in 1..Len(emitted') : emitted'[j] = Delivered(emitted'[i].clientId, k)
         /\ raised' = NoException
         /\ \E j \in (i + 1)..Len(emitted') :
              /\ emitted'[j].type = "agentTaskCompleted"
              /\ emitted'[j].clientId = emitted'[i].clientId
         /\ TaskKey(emitted'[i].clientId) \notin DOMAIN trackingIntervals']_vars

\* C21: a publish of 'taskCompleted' calls the listeners registered at the moment
\* of the publish, each exactly once and in registration order, and no listener
\* added during the dispatch; the calls come after the event was generated and
\* before the next event of the client, 'agentTaskCompleted', is generated.
C21_FanOutInOrder ==
  [][\A i \in 1..Len(emitted') :
       emitted'[i].type = "taskCompleted" =>
         LET c == emitted'[i].clientId
             calls == {j \in 1..Len(emitted') : emitted'[j].type = "delivered: taskCompleted"}
         IN /\ i + Len(subscribers) < Len(emitted')
            /\ \A k \in 1..Len(subscribers) : emitted'[i + k] = Delivered(c, k)
            /\ calls = {i + k : k \in 1..Len(subscribers)}
            /\ emitted'[i + Len(subscribers) + 1].type = "agentTaskCompleted"
            /\ emitted'[i + Len(subscribers) + 1].clientId = c]_vars

\* The 'file_analysis' completion events for a client among the events of one operation.
FileAnalysisIn(es, clientId) ==
  {i \in 1..Len(es) : /\ es[i].type = "taskCompleted"
                       /\ es[i].trigger = "file_analysis"
                       /\ es[i].clientId = clientId}

\* C22: for a client whose session is armed, a change of a file whose path matches a
\* completion pattern starts exactly one analysis of that file for the client, and a
\* file event on a path that matches no pattern starts none; an analysis whose read
\* returns content with a completion keyword emits exactly one 'file_analysis'
\* completion for its client, and one whose content has no keyword emits none.
C22_FileAnalysisOnce ==
  /\ [][\A c \in ClientIds, f \in FilePaths :
          (armed[c] /\ FileChanges(c, "change", f)) =>
            IF isCompletionFile(f)
            THEN /\ BagSize(pendingReads') = BagSize(pendingReads) + 1
                 /\ [clientId |-> c, filePath |-> f] \in DOMAIN pendingReads'
            ELSE pendingReads' = pendingReads]_vars
  /\ [][\A r \in DOMAIN pendingReads, content \in Contents :
          ReadCompletes(r, content) =>
            /\ Cardinality(FileAnalysisIn(emitted', r.clientId)) =
                 IF hasCompletionIndicator(content) THEN 1 ELSE 0
            /\ \A d \in ClientIds \ {r.clientId} : FileAnalysisIn(emitted', d) = {}]_vars

DetectorOperation(clientId) ==
  \/ StartTracking(clientId)
  \/ StopTracking(clientId)
  \/ \E t \in IdleTimeouts : StartTaskMonitoring(clientId, t)
  \/ StopTaskMonitoring(clientId)
  \/ MarkTaskCompleted(clientId)
  \/ \E e \in FileEvents, f \in FilePaths : FileChanges(clientId, e, f)

\* The watchers that report for a client.
WatchersOf(s, clientId) ==
  <<{k \in DOMAIN s.watchers : s.watchers[k] = clientId},
    IF clientId \in DOMAIN s.leakedWatchers THEN s.leakedWatchers[clientId] ELSE 0>>

\* C24: for two distinct ids A and B, one of which may extend the other, an
\* operation of the detector called for A leaves every scheduled timer and interval
\* of B, where it is stored and whether it is still scheduled, and every watcher of
\* B as they were, and emits no completion event for B.
C24_ClientsAreIsolated ==
  [][\A a \in ExtendingIds, b \in ExtendingIds :
       (a /= b /\ DetectorOperation(a)) =>
         /\ TimersOf(Cur, b)' = TimersOf(Cur, b)
         /\ WatchersOf(Cur, b)' = WatchersOf(Cur, b)
         /\ CompletionsIn(emitted', b) = {}]_vars

\* C25: an Initialize request registers its entity under an id that no stored
\* session has: the store gains one entity and every entity it held is still there,
\* with its own id.
C25_SessionIdsUnique ==
  [][Initialize =>
       /\ SessionId(dateNow.ms) \notin DOMAIN clients
       /\ Cardinality(DOMAIN clients') = Cardinality(DOMAIN clients) + 1
       /\ \A c \in DOMAIN clients : c \in DOMAIN clients' /\ clients'[c] = clients[c]]_vars

\* The ids getCurrentClient returned in the events of one operation.
ReturnedIn(es) ==
  {es[i].clientId : i \in {j \in 1..Len(es) : es[j].type = "returned: getCurrentClient"}}

\* C26: resolving the current client throws nothing and returns one stored client
\* whose status is not Disconnected; when no stored client was active it is
\* 'default_session', registered with status Connected, and otherwise it is one of
\* the clients that were active and the store is as it was.
C26_DefaultSession ==
  [][GetCurrentClient =>
       /\ raised' = NoException
       /\ \E id \in DOMAIN clients' :
            /\ ReturnedIn(emitted') = {id}
            /\ clients'[id].status /= DISCONNECTED
            /\ IF getActiveSessionIds(Cur) = {}
               THEN id = "default_session" /\ clients'[id].status = CONNECTED
               ELSE id \in getActiveSessionIds(Cur) /\ clients' = clients]_vars

\* The event names of the payloads a tool call has sent, in the order of sending.
EventsOf(call) == [i \in 1..Len(call.sent) |-> call.sent[i].event]

\* The terminal payload of a call whose handler has finished.
Terminal(call) == IF call.error THEN "tool_error" ELSE "tool_completed"

\* C27: a tool call made while a webhook is set sends exactly one 'tool_called'
\* payload before the tool's handler runs and exactly one terminal payload after
\* it, 'tool_completed' if the handler returned and 'tool_error' if it threw,
\* before the result is returned; a call made while none is set sends nothing;
\* how the webhook answers changes neither the result nor what is thrown.
C27_WebhookProtocol ==
  LET call == toolServer.call IN
  /\ call.pc \in {"sending tool_called", "handling"} =>
       EventsOf(call) \in {<<>>, <<"tool_called">>}
  /\ call.pc = "returned" =>
       /\ EventsOf(call) \in {<<>>, <<"tool_called", Terminal(call)>>}
       /\ call.result \in IF call.error THEN {"Error executing tool"}
                          ELSE IF call.tool \in KnownTools
                          THEN {"handled", "Error recording task start"}
                          ELSE {"Unknown tool"}

\* The first non-empty URL of the constructor parameter, AGENTIFY_WEBHOOK_URL and
\* WEBHOOK_URL, in this order of priority; "" when all are empty.
UrlInEffect(config, agentifyEnv, env) ==
  CASE config /= "" -> config
    [] agentifyEnv /= "" -> agentifyEnv
    [] env /= "" -> env
    [] OTHER -> ""

\* C28: the webhook is enabled exactly when a non-empty URL is in effect: after
\* construction it is the first non-empty one of the constructor parameter,
\* AGENTIFY_WEBHOOK_URL and WEBHOOK_URL; setWebhookUrl(u) with a non-empty u
\* enables it and the tool calls made from then on are sent to u;
\* setWebhookUrl('') disables it and the tool calls made from then on send nothing.
C28_WebhookEnablement ==
  [][/\ \A config \in ConfigUrls, agentifyEnv \in AgentifyEnvUrls, env \in EnvUrls :
          Construct(config, agentifyEnv, env) =>
            /\ toolServer'.webhook = UrlInEffect(config, agentifyEnv, env)
            /\ isWebhookEnabled(toolServer') <=> UrlInEffect(config, agentifyEnv, env) /= ""
     /\ \A url \in SetUrls :
          SetWebhookUrl(url) =>
            /\ toolServer'.webhook = url
            /\ isWebhookEnabled(toolServer') <=> url /= ""
     /\ (\E name \in ToolNames : CallTool(name)) =>
          toolServer'.call.sent =
            IF toolServer.webhook /= ""
            THEN <<[event |-> "tool_called", url |-> toolServer.webhook]>>
            ELSE <<>>]_vars

\* A call made after setWebhookUrl('https://set') is being reported there.
C28_Witness ==
  /\ toolServer.call.pc = "sending tool_called"
  /\ toolServer.call.sent = <<[event |-> "tool_called", url |-> "https://set"]>>
  /\ isWebhookEnabled(toolServer)

\* The server as it would be had every non-empty URL it was given been `url`.
WithUrl(server, url) ==
  [server EXCEPT
     !.webhook = IF @ /= "" THEN url ELSE @,
     !.log = [i \in 1..Len(server.log) |->
                [server.log[i] EXCEPT !.url = IF @ /= "" THEN url ELSE @]]]

\* C29: the webhook URL is never disclosed: for two configurations that differ
\* only in the non-empty webhook URL, the log written by the constructor and by
\* setWebhookUrl and the value of getWebhookUrl() are the same; the URL is masked
\* in the log and getWebhookUrl() is 'configured' or undefined.
C29_UrlNeverDisclosed ==
  LET other == WithUrl(toolServer, "https://other") IN
  /\ other.log = toolServer.log
  /\ getWebhookUrl(other) = getWebhookUrl(toolServer)
  /\ getWebhookUrl(toolServer) \in {"configured", ""}

\* The listeners startTaskMonitoring installed for a client, oldest first.
ListenersOf(clientId) ==
  SelectSeq(fileListeners, LAMBDA listener : listener.clientId = clientId)

\* The configuration of the most recent startTaskMonitoring call for a client.
Configured(clientId) == ListenersOf(clientId)[Len(ListenersOf(clientId))]

\* content.toLowerCase().includes(keyword), for the contents a read may return.
Includes(content, keyword) ==
  <<content, keyword>> \in {<<"Build Successful", "success">>,
                            <<"Build Successful", "build successful">>}

\* C30: the configuration of the most recent startTaskMonitoring(id, config) is the
\* one used for the client: the file analysis detects a completion exactly when
\* the content includes one of the configured completionIndicators, and after a
\* file event the idle timer is armed with the configured idleTimeout.
C30_ConfigurationHonoured ==
  /\ [][\A r \in DOMAIN pendingReads, content \in Contents :
          ReadCompletes(r, content) =>
            LET indicators == Configured(r.clientId).completionIndicators IN
            (FileAnalysisIn(emitted', r.clientId) /= {}) <=>
              \E i \in 1..Len(indicators) : Includes(content, indicators[i])]_vars
  /\ [][\A c \in ClientIds, e \in FileEvents, f \in FilePaths :
          (FileChanges(c, e, f) /\ ListenersOf(c) /= <<>>) =>
            /\ TaskKey(c) \in DOMAIN trackingIntervals'
            /\ trackingIntervals'[TaskKey(c)].live
            /\ trackingIntervals'[TaskKey(c)].remaining = Configured(c).idleTimeout]_vars

\* The number of idle timers scheduled for a client: the one the map holds under
\* a key, if it is live, and those that left the map while scheduled.
IdleTimerCount(clientId) ==
  Cardinality({k \in DOMAIN trackingIntervals :
                 /\ trackingIntervals[k].live
                 /\ trackingIntervals[k].kind = "idle"
                 /\ trackingIntervals[k].clientId = clientId})
  + SumOver(leakedTimers, {tm \in DOMAIN leakedTimers :
                             tm.kind = "idle" /\ tm.clientId = clientId})

\* The last operation published 'clientConnected' for the client.
JustConnected(clientId) ==
  \E i \in 1..Len(emitted) :
    emitted[i].type = "clientConnected" /\ emitted[i].clientId = clientId

\* C31: right after the server has handled 'clientConnected' for a client, exactly
\* one idle timer is scheduled for it, the one just started with the server's
\* timeout; this holds for a second registration of the same id as well.
C31_ArmedOnConnect ==
  \A c \in ClientIds :
    JustConnected(c) =>
      /\ IdleTimerCount(c) = 1
      /\ TaskKey(c) \in DOMAIN trackingIntervals
      /\ trackingIntervals[TaskKey(c)] = Timer("idle", c, ServerIdleTimeout)

\* c1 has just been registered a second time.
C31_Witness ==
  /\ JustConnected("c1")
  /\ Len(ListenersOf("c1")) = 2

\* C32: whatever startTaskMonitoring, stopTaskMonitoring and completions there
\* were for a client, at most one 'fileChanged' listener is installed for it, so
\* one file change starts at most one analysis of the file's content.
C32_OneSubscriptionPerClient ==
  /\ [](\A c \in ClientIds : Len(ListenersOf(c)) <= 1)
  /\ [][\A c \in ClientIds, e \in FileEvents, f \in FilePaths :
          FileChanges(c, e, f) => BagSize(pendingReads') <= BagSize(pendingReads) + 1]_vars

\* The events of a type published for a client by the last operation.
Published(es, type, clientId) ==
  {i \in 1..Len(es) : es[i].type = type /\ es[i].clientId = clientId}

\* C33: when the server handles a completion event for a registered client, the
\* handler resumes after its notification, the client's status becomes Idle and
\* its context is updated; if the client was unregistered before the handler
\* resumes, no client state changes, and no 'clientStatusChanged' or
\* 'clientContextUpdated' is published for the id after its 'clientDisconnected'.
C33_CompletionHandled ==
  /\ \A c \in ClientIds :
       (c \in DOMAIN pendingCompletions) ~> (c \notin DOMAIN pendingCompletions)
  /\ [][\A c \in ClientIds :
          CompletionHandlerResumes(c) =>
            IF stale[c]
            THEN /\ clients' = clients
                 /\ Published(emitted', "clientStatusChanged", c) = {}
                 /\ Published(emitted', "clientContextUpdated", c) = {}
            ELSE /\ clients'[c].status = IDLE
                 /\ Published(emitted', "clientContextUpdated", c) /= {}]_vars

\* The results a tool returned in the last operation.
ToolResultIn(es, tool) == {i \in 1..Len(es) : es[i].type = "result: " \o tool}

\* The handler returned one CallToolResult and threw nothing.
Total(tool) ==
  /\ raised' = NoException
  /\ Cardinality(ToolResultIn(emitted', tool)) = 1

\* The handler returned a result with isError and changed neither the client store
\* nor the tracker.
FailedClosed(tool) ==
  /\ \A i \in ToolResultIn(emitted', tool) : emitted'[i].trigger = "isError"
  /\ UNCHANGED <<clients, trackingIntervals, leakedTimers, watchers, leakedWatchers,
                 fileListeners, pendingReads, pendingCompletions>>

\* A clientId was given.
Given(clientId) == clientId /= Absent

\* No session is found: getCurrentClient throws.
MissingSession(args, first) ==
  ~truthy(args.clientId) /\ getActiveSessionIds(Cur) /= {} /\ first = ""

\* The types of the results of the tools.
ResultTypes ==
  {"result: " \o tool : tool \in {"get-agent-status", "get-metrics", "get-file-changes",
                                  "mark-task-completed", "pause-agent", "resume-agent",
                                  "task-started"}}

\* The step returned a result of the tool to a call with the clientId of `args`: a
\* result names its tool and the clientId argument of its call (toolResult).
Called(tool, args) ==
  \E i \in ToolResultIn(emitted', tool) : emitted'[i].clientId = args.clientId

\* A step in which no tool was called.
NoToolCalled ==
  \/ \E c \in ToolClients : RegisterClient(c)
  \/ \E c \in ToolClients \cup {DefaultClient.id} :
       UnregisterClient(c) \/ CompletionHandlerResumes(c)
  \/ Subscribe("throws")

\* Every handler returns a result and throws nothing; arguments that fail
\* validation, a clientId that counts as named (for get-agent-status and
\* get-metrics) and is not registered, and a missing session give an error result
\* and change nothing.
HandlersFailClosed(Names(_)) ==
  /\ (\A i \in 1..Len(emitted') : emitted'[i].type \notin ResultTypes) => NoToolCalled
  /\ \A args \in ToolArgs :
       Called("get-agent-status", args) /\ HandleGetAgentStatus(args) =>
         /\ Total("get-agent-status")
         /\ (~args.valid \/ (Names(args.clientId) /\ args.clientId \notin DOMAIN clients))
              => FailedClosed("get-agent-status")
  /\ \A args \in ToolArgs, first \in Firsts :
       Called("get-metrics", args) /\ HandleGetMetrics(args, first) =>
         /\ Total("get-metrics")
         /\ (\/ ~args.valid
             \/ Names(args.clientId) /\ args.clientId \notin DOMAIN clients
             \/ MissingSession(args, first))
              => FailedClosed("get-metrics")
  /\ \A args \in ToolArgs, first \in Firsts :
       Called("get-file-changes", args) /\ HandleGetFileChanges(args, first) =>
         /\ Total("get-file-changes")
         /\ (~args.valid \/ MissingSession(args, first))
              => FailedClosed("get-file-changes")
  /\ \A args \in ToolArgs, first \in Firsts :
       Called("mark-task-completed", args) /\ HandleMarkTaskCompleted(args, first) =>
         /\ Total("mark-task-completed")
         /\ (~args.valid \/ MissingSession(args, first))
              => FailedClosed("mark-task-completed")
  /\ \A args \in ToolArgs :
       Called("pause-agent", args) /\ HandlePauseAgent(args) =>
         /\ Total("pause-agent")
         /\ (~args.valid \/ args.clientId = Absent) => FailedClosed("pause-agent")
  /\ \A args \in ToolArgs :
       Called("task-started", args) /\ HandleTaskStarted(args) =>
         /\ Total("task-started")
         /\ ~args.valid => FailedClosed("task-started")

\* C34: the tool handlers are total and fail closed, where every clientId that is
\* given and not registered counts for get-agent-status and get-metrics.
C34_HandlersFailClosed == [][HandlersFailClosed(Given)]_vars

\* The handlers are total and fail closed for every clientId but the empty one,
\* which they treat as a clientId that was not given.
C34_NonEmptyIdsFailClosed == [][HandlersFailClosed(truthy)]_vars

\* get-metrics was called for c2, which is not registered, while c1 is, and
\* returned an error.
C34_Witness ==
  /\ "c1" \in DOMAIN clients
  /\ \E i \in ToolResultIn(emitted, "get-metrics") :
       emitted[i].clientId = "c2" /\ emitted[i].trigger = "isError"

\* The non-error results the tool returned in the last operation took effect: the
\* client they name is registered with the status.
TookEffect(tool, status) ==
  \A i \in ToolResultIn(emitted, tool) :
    emitted[i].trigger /= "isError" =>
      /\ emitted[i].clientId \in DOMAIN clients
      /\ clients[emitted[i].clientId].status = status

\* C35: pause-agent and resume-agent report success only when the client exists
\* afterwards with the status Paused, respectively Running; for a clientId that is
\* not registered they return an error.
C35_SuccessOnlyWhenEffective ==
  TookEffect("pause-agent", PAUSED) /\ TookEffect("resume-agent", RUNNING)

\* The result of the call has isError set: every result but that of a handler
\* that accepted its arguments.
Failed(call) == call.result /= "handled"

\* C36: the terminal payload of a tool call is 'tool_error' exactly when the call
\* failed (the tool is unknown, its arguments were rejected, or its result has
\* isError set) and 'tool_completed' exactly when it succeeded.
C36_TerminalEventReflectsOutcome ==
  LET call == toolServer.call IN
  \A i \in 1..Len(call.sent) :
    call.sent[i].event /= "tool_called" =>
      call.sent[i].event = IF Failed(call) THEN "tool_error" ELSE "tool_completed"

\* The same for the calls whose handler threw or returned a result without isError.
C36_ThrownOrSucceeded ==
  LET call == toolServer.call IN
  call.error \/ ~Failed(call) => C36_TerminalEventReflectsOutcome

\* stopAll() has just returned.
Stopped == emitted /= <<>> /\ emitted[Len(emitted)].type = "returned: stopAll"

\* C37: after stopAll() no watcher, metrics interval, idle timer or process poll
\* remains for any client, whether or not it was tracked with file watching, so
\* that nothing fires and no completion or metrics event follows the shutdown.
C37_ShutdownReleasesEverything ==
  Stopped => LiveRefs(Cur) = {} /\ WatchedClients = {}

\* What stopAll() does release: the watchers the map holds, and the metrics
\* intervals the map holds for the clients that had a watcher.
C37_WatchersInTheMapReleased ==
  [][StopAll =>
       /\ watchers' = EmptyMap
       /\ \A c \in DOMAIN watchers : MetricsKey(c) \notin DOMAIN trackingIntervals']_vars

\* The number of open file watchers of a client: the one the map holds and those
\* that were replaced in the map without being closed.
LiveWatchers(c) ==
  (IF c \in DOMAIN watchers THEN 1 ELSE 0)
  + (IF c \in DOMAIN leakedWatchers THEN leakedWatchers[c] ELSE 0)

\* The number of scheduled metrics intervals of a client.
LiveMetrics(c) ==
  Cardinality({k \in DOMAIN trackingIntervals :
                 /\ trackingIntervals[k].live
                 /\ trackingIntervals[k].kind = "metrics"
                 /\ trackingIntervals[k].clientId = c})
  + SumOver(leakedTimers,
            {tm \in DOMAIN leakedTimers : tm.kind = "metrics" /\ tm.clientId = c})

\* stopTracking(c) was the last call.
JustStopped(c) ==
  /\ emitted /= <<>>
  /\ emitted[Len(emitted)].type = "trackingStopped"
  /\ emitted[Len(emitted)].clientId = c

\* C38: whatever calls of startTracking and stopTracking were made, a client has at
\* most one open watcher and at most one scheduled metrics interval, and none of
\* either when stopTracking was the last call for it.
C38_OneWatcherOneInterval ==
  \A c \in ClientIds :
    /\ LiveWatchers(c) <= 1
    /\ LiveMetrics(c) <= 1
    /\ JustStopped(c) => LiveWatchers(c) = 0 /\ LiveMetrics(c) = 0

\* The history of a client holds the snapshots most recently added for it, at most
\* HistoryLimit of them, in the order in which they were added: the n-th snapshot
\* added is the last one, and each one before it was added just before it.
MostRecentKept(c) ==
  LET history == getStateHistory(Cur, c) IN
  /\ Len(history) <= HistoryLimit
  /\ Len(history) = IF Added(c) < HistoryLimit THEN Added(c) ELSE HistoryLimit
  /\ \A i \in 1..Len(history) : history[i] = Snapshot(c, Added(c) - (Len(history) - i))

\* A snapshot was added for the client in the last operation.
SnapshotAdded(c) ==
  /\ emitted' /= <<>>
  /\ emitted'[1].type = "stateSnapshot"
  /\ emitted'[1].clientId = c

\* C39: a history holds at most 100 snapshots, the most recently added ones in the
\* order of adding; adding to a full history evicts exactly its oldest snapshot,
\* and adding for one client leaves the histories of the others as they were.
C39_HistoryBoundedFifo ==
  [][\A c \in ClientIds :
       /\ MostRecentKept(c)'
       /\ SnapshotAdded(c) =>
            /\ Len(getStateHistory(Cur, c)) = HistoryLimit =>
                 getStateHistory(Cur, c)' =
                   Append(Tail(getStateHistory(Cur, c)), Snapshot(c, Added(c) + 1))
            /\ \A d \in ClientIds \ {c} : getStateHistory(Cur, d)' = getStateHistory(Cur, d)]_vars

\* A snapshot was added to the full history of c1 while c2 has a history too.
C39_Witness ==
  /\ Added("c1") > HistoryLimit
  /\ Len(getStateHistory(Cur, "c1")) = HistoryLimit
  /\ getStateHistory(Cur, "c2") /= <<>>
  /\ emitted /= <<>> /\ emitted[1].type = "stateSnapshot" /\ emitted[1].clientId = "c1"

====
